---- MODULE Spec2Model ----
(***************************************************************************)
(* A model of modctl: the content-addressed blob store (streaming ingest,  *)
(* dedupe, rename into place, directory fsync) and the SQLite metadata     *)
(* catalog (profiles, profile items, blobs) with its transactions.         *)
(*                                                                         *)
(* Specifications:                                                         *)
(*   Spec        concurrent IngestFile calls on one blob store             *)
(*   SpecCrash   the same, plus a machine crash                            *)
(*   SpecProfiles  concurrent modctl processes: games refresh and the      *)
(*               profiles create, rename, set-active and delete commands   *)
(*   SpecAtomic  the commands that change several rows (games refresh,     *)
(*               profiles set-active, mods import), run concurrently       *)
(*   SpecItems   concurrent profiles add commands on one install           *)
(*   SpecTargets games refresh on discovered and user-overridden targets   *)
(*   SpecCatalog IngestFile and EnsureBlobRecorded called with any kind    *)
(*   SpecImport  mods import with --nexus-url, --label and a page id, one  *)
(*               import after the other                                    *)
(*   SpecImportCmd  the mods import command: --rm checks, archive listing, *)
(*               ImportArchive, removal of the input                       *)
(*   SpecBlobRefs  INSERT and UPDATE statements on the tables that         *)
(*               reference a blob                                          *)
(*   SpecTargetRefs  INSERT and UPDATE statements on the tables that       *)
(*               reference a target                                        *)
(*   SpecSidecar concurrent SaveActive calls on active.json                *)
(*   SpecCopy    the loops that copy file bytes, and the interrupt         *)
(*   SpecLibraries  games refresh on changing sets of Steam libraries      *)
(*   SpecBlobKeys  INSERT statements on the blobs table, with any key      *)
(*   SpecTampered  mods import on a store that held a file before          *)
(*   SpecSelector  one call of ParseSelector on any input                  *)
(*   SpecFlags   profiles remove and profiles rename with their --game and *)
(*               --profile flags                                           *)
(***************************************************************************)
EXTENDS Integers, Sequences, FiniteSets, TLC

(***************************************************************************)
(* Bounds of the model.                                                    *)
(***************************************************************************)
\* number of IngestFile calls (processes or goroutines) that may overlap
NumCalls == 2

(***************************************************************************)
(* Program constants.                                                      *)
(***************************************************************************)
\* buf := make([]byte, 1024*1024)
BufSize == 1048576

KindArchive == "archive"
KindBackup == "backup"
KindOverride == "override"
Kinds == {KindArchive, KindBackup, KindOverride}

(***************************************************************************)
(* Inputs.  A source is a file of the caller; two sources differ in their  *)
(* first byte, so that every non-empty prefix of one differs from every    *)
(* prefix of the other, and the empty prefix is common to both.            *)
(***************************************************************************)
Calls == 1..NumCalls
Sources == {"a", "b"}
SrcLen(s) == IF s = "a" THEN BufSize + 1 ELSE 0
\* the kinds the modelled callers pass to IngestFile
IngestKinds == {KindArchive, KindBackup}

Min(a, b) == IF a < b THEN a ELSE b

(***************************************************************************)
(* sha256 of the first n bytes of source s (an ideal digest: equal for     *)
(* equal byte sequences, different otherwise).                             *)
(***************************************************************************)
sha256(s, n) == IF n = 0 THEN <<"e3b0", 0>> ELSE <<s, n>>

\* the digest IngestFile computes: the hasher h is fed, through the
\* MultiWriter, every byte written to the temp file
StreamedSumEmpty(s, n) == sha256(s, 0)
StreamedSum(s, n) == sha256(s, n)

Hashes == {sha256(s, n) : s \in Sources, n \in {0, 1, BufSize, BufSize + 1}}

RootFor(kind) ==
    CASE kind = KindArchive -> "ArchivesDir"
      [] kind = KindBackup -> "BackupsDir"
      [] kind = KindOverride -> "OverridesDir"

\* <root>/ab/<fullhash>: the fan directory is a function of the hash, so a
\* path is identified by the root and the hash
PathFor(kind, shaHex) == <<RootFor(kind), shaHex>>

Paths == {PathFor(k, h) : k \in Kinds, h \in Hashes}

\* number of modctl processes that may run at once
NumProcs == 2
Procs == 1..NumProcs

(***************************************************************************)
(* Files.  A file is an inode (named by the call that created it, 0 for a  *)
(* file that was on disk before any call) holding the first len bytes of a *)
(* source.                                                                 *)
(***************************************************************************)
NoFile == [ino |-> -1, data |-> "", len |-> 0]
File(i, s, n) == [ino |-> i, data |-> s, len |-> n]

VARIABLES
    pc,         \* pc[c]: where call c of IngestFile stands
    kind,       \* kind[c], src[c]: the arguments of call c
    src,
    n,          \* n[c]: bytes copied so far (total in copyWithContext)
    cancelled,  \* cancelled[c]: ctx.Done() of call c is closed
    res,        \* res[c]: what call c returned
    tmpfiles,   \* calls whose temp file exists in <TmpDir>/incoming
    final,      \* final[p]: the file at blob path p, or NoFile
    durable,    \* blob paths whose directory entry has reached the disk
    crashed,    \* the machine has crashed
    wrote,      \* wrote[c]: call c renamed its temp file onto the final path
    raced,      \* raced[c]: the final path existed when call c renamed
    atEOF,      \* atEOF[c]: the file at the final path when c finished streaming
    db,         \* the committed content of modctl.db, a record of tables
    tx,         \* tx[p]: the snapshot and pending writes of process p, or NoSnap
    writer,     \* the process holding SQLite's write lock, or 0
    stale,      \* stale[p]: a commit happened after p's snapshot was taken
    proc,       \* proc[p]: the command process p runs and where it stands
    recorded,   \* <<sha, kind>> for which EnsureBlobRecorded returned nil
    removed,    \* the input files mods import --rm has deleted
    refusal,    \* the last import refused before ImportArchive, or NoRefusal
    sidecar,    \* the content of active.json, or NoRecord
    tmpfile,    \* the content of active.json.tmp, or NoRecord
    save,       \* save[p]: where the SaveActive call of process p stands
    loop,       \* loop[c]: the byte-copying loop run by call c
    lastLibs,   \* the libraries of the last committed games refresh, or NoScan
    selector    \* the argument and the result of a ParseSelector call

blobVars == <<pc, kind, src, n, cancelled, res, tmpfiles, final, durable, crashed,
              wrote, raced, atEOF>>
metaVars == <<db, tx, writer, stale, proc, recorded>>
cmdVars == <<removed, refusal>>
sideVars == <<sidecar, tmpfile, save>>
auxVars == <<loop, lastLibs, selector>>
vars == <<blobVars, metaVars, cmdVars, sideVars, auxVars>>

callVars == <<kind, src>>
histVars == <<wrote, raced, atEOF>>

(***************************************************************************)
(* The blob store before the calls: empty, or holding one damaged blob (a  *)
(* file at the path of a's digest that is shorter than a).                 *)
(***************************************************************************)
EmptyStore == [p \in Paths |-> NoFile]
DamagedStore(k) ==
    [EmptyStore EXCEPT ![PathFor(k, sha256("a", SrcLen("a")))] = File(0, "a", 1)]

\* no import has been refused yet
NoRefusal == [path |-> <<>>, err |-> "none"]
\* active.json or active.json.tmp does not exist
NoRecord == <<>>
\* a process that is not in SaveActive
IdleSave == [pc |-> "idle", val |-> 0, pos |-> 0, fd |-> "none"]
\* a call that runs no copy loop
IdleLoop == [pc |-> "idle", caller |-> "none", size |-> 0, off |-> 0,
             cancelled |-> FALSE, after |-> 0, chunk |-> 0]
\* no games refresh has scanned the Steam libraries yet
NoScan == {"none"}
\* ParseSelector has not been called
NoResult == [err |-> "none", store |-> <<>>, game |-> <<>>, instance |-> <<>>]
\* ParseSelector has been called and has not returned
PendingResult == [NoResult EXCEPT !.err = "pending"]
NoSelector == [in |-> <<>>, out |-> NoResult]

InitCalls ==
    /\ pc = [c \in Calls |-> "idle"]
    /\ kind = [c \in Calls |-> KindArchive]
    /\ src = [c \in Calls |-> "a"]
    /\ n = [c \in Calls |-> 0]
    /\ cancelled = [c \in Calls |-> FALSE]
    /\ res = [c \in Calls |-> "none"]
    /\ tmpfiles = {}
    /\ crashed = FALSE
    /\ wrote = [c \in Calls |-> FALSE]
    /\ raced = [c \in Calls |-> FALSE]
    /\ atEOF = [c \in Calls |-> NoFile]
    /\ removed = {}
    /\ refusal = NoRefusal
    /\ sidecar = NoRecord
    /\ tmpfile = NoRecord
    /\ save = [p \in Procs |-> IdleSave]
    /\ loop = [c \in Calls |-> IdleLoop]
    /\ lastLibs = NoScan
    /\ selector = NoSelector

InitStore ==
    /\ InitCalls
    /\ final \in {EmptyStore} \cup {DamagedStore(k) : k \in IngestKinds}
    /\ durable = {p \in Paths : final[p] # NoFile}

\* no IngestFile call is running and the store is empty
InitEmptyStore ==
    /\ InitCalls
    /\ final = EmptyStore
    /\ durable = {}

\* the deferred func of IngestFile: tmp.Close(); os.Remove(tmpName)
DeferredRemoveNothing(tmps, c) == tmps
DeferredRemove(tmps, c) == tmps \ {c}

\* finalPath of call c, once the copy has ended
finalPath(c) == PathFor(kind[c], StreamedSum(src[c], n[c]))

(***************************************************************************)
(* IngestFile, lines 86-110: open the source, create <TmpDir>/incoming and *)
(* an empty temp file in it.  Calls start in index order (they are         *)
(* interchangeable).                                                       *)
(***************************************************************************)
Start(c, k, s) ==
    /\ ~crashed
    /\ pc[c] = "idle"
    /\ \A d \in Calls : d < c => pc[d] # "idle"
    /\ pc' = [pc EXCEPT ![c] = "copy"]
    /\ kind' = [kind EXCEPT ![c] = k]
    /\ src' = [src EXCEPT ![c] = s]
    /\ tmpfiles' = tmpfiles \cup {c}
    /\ UNCHANGED <<n, cancelled, res, final, durable, crashed, histVars>>
    /\ UNCHANGED <<metaVars, cmdVars, sideVars, auxVars>>

\* the interrupt signal closes ctx.Done() of call c
Cancel(c) ==
    /\ ~crashed
    /\ pc[c] = "copy"
    /\ ~cancelled[c]
    /\ cancelled' = [cancelled EXCEPT ![c] = TRUE]
    /\ UNCHANGED <<pc, callVars, n, res, tmpfiles, final, durable, crashed, histVars>>
    /\ UNCHANGED <<metaVars, cmdVars, sideVars, auxVars>>

\* src.Read(buf) at offset off: the number of bytes read (0 with io.EOF)
Read(s, off) == Min(BufSize, SrcLen(s) - off)

(***************************************************************************)
(* One iteration of copyWithContext: poll ctx, read a chunk, write it to   *)
(* the temp file and the hasher.  On cancellation IngestFile returns the   *)
(* error and its deferred func removes the temp file.                      *)
(***************************************************************************)
CopyStep(c) ==
    /\ ~crashed
    /\ pc[c] = "copy"
    /\ IF cancelled[c]
       THEN /\ pc' = [pc EXCEPT ![c] = "returned"]
            /\ res' = [res EXCEPT ![c] = "cancelled"]
            /\ tmpfiles' = DeferredRemove(tmpfiles, c)
            /\ UNCHANGED n
       ELSE LET nr == Read(src[c], n[c]) IN
            IF nr > 0
            THEN /\ n' = [n EXCEPT ![c] = n[c] + nr]
                 /\ UNCHANGED <<pc, res, tmpfiles>>
            ELSE /\ pc' = [pc EXCEPT ![c] = "sync"]
                 /\ UNCHANGED <<n, res, tmpfiles>>
    /\ UNCHANGED <<callVars, cancelled, final, durable, crashed, histVars>>
    /\ UNCHANGED <<metaVars, cmdVars, sideVars, auxVars>>

(***************************************************************************)
(* Lines 121-140: tmp.Sync, tmp.Close, the digest, PathFor, MkdirAll of    *)
(* the fan directory.                                                      *)
(***************************************************************************)
SyncClose(c) ==
    /\ ~crashed
    /\ pc[c] = "sync"
    /\ pc' = [pc EXCEPT ![c] = "stat"]
    /\ atEOF' = [atEOF EXCEPT ![c] = final[finalPath(c)]]
    /\ UNCHANGED <<callVars, n, cancelled, res, tmpfiles, final, durable, crashed,
                   wrote, raced>>
    /\ UNCHANGED <<metaVars, cmdVars, sideVars, auxVars>>

\* the dedupe check on an existing file st: its size against the ingest size
SizeCheckNone(st, size) == "existed"
SizeCheck(st, size) == IF st.len # size THEN "corruption" ELSE "existed"

(***************************************************************************)
(* Lines 142-155: os.Stat(finalPath); an existing file is a dedupe hit.    *)
(***************************************************************************)
Stat(c) ==
    /\ ~crashed
    /\ pc[c] = "stat"
    /\ LET st == final[finalPath(c)] IN
       IF st # NoFile
       THEN /\ pc' = [pc EXCEPT ![c] = "returned"]
            /\ res' = [res EXCEPT ![c] = SizeCheck(st, n[c])]
            /\ tmpfiles' = DeferredRemove(tmpfiles, c)
       ELSE /\ pc' = [pc EXCEPT ![c] = "rename"]
            /\ UNCHANGED <<res, tmpfiles>>
    /\ UNCHANGED <<callVars, n, cancelled, final, durable, crashed, histVars>>
    /\ UNCHANGED <<metaVars, cmdVars, sideVars, auxVars>>

(***************************************************************************)
(* Line 158, os.Rename(tmpName, finalPath) succeeding: rename replaces an  *)
(* existing destination file.                                              *)
(***************************************************************************)
Rename(c) ==
    /\ ~crashed
    /\ pc[c] = "rename"
    /\ c \in tmpfiles
    /\ final' = [final EXCEPT ![finalPath(c)] = File(c, src[c], n[c])]
    /\ tmpfiles' = tmpfiles \ {c}
    /\ wrote' = [wrote EXCEPT ![c] = TRUE]
    /\ raced' = [raced EXCEPT ![c] = final[finalPath(c)] # NoFile]
    /\ pc' = [pc EXCEPT ![c] = "fsyncDir"]
    /\ UNCHANGED <<callVars, n, cancelled, res, durable, crashed, atEOF>>
    /\ UNCHANGED <<metaVars, cmdVars, sideVars, auxVars>>

(***************************************************************************)
(* Lines 158-170, os.Rename failing (an I/O error, a cross-device link):   *)
(* the second os.Stat decides between a dedupe hit and the rename error.   *)
(***************************************************************************)
RenameFailed(c) ==
    /\ ~crashed
    /\ pc[c] = "rename"
    /\ LET st == final[finalPath(c)] IN
       /\ res' = [res EXCEPT ![c] =
                    IF st # NoFile THEN SizeCheck(st, n[c]) ELSE "renameError"]
       /\ raced' = [raced EXCEPT ![c] = st # NoFile]
    /\ pc' = [pc EXCEPT ![c] = "returned"]
    /\ tmpfiles' = DeferredRemove(tmpfiles, c)
    /\ UNCHANGED <<callVars, n, cancelled, final, durable, crashed, wrote, atEOF>>
    /\ UNCHANGED <<metaVars, cmdVars, sideVars, auxVars>>

(***************************************************************************)
(* Lines 172-175: _ = fsyncDir(finalDir), best effort: whether or not the  *)
(* directory reached the disk, IngestFile returns Existed=false.           *)
(***************************************************************************)
FsyncDir(c, ok) ==
    /\ ~crashed
    /\ pc[c] = "fsyncDir"
    /\ durable' = IF ok THEN durable \cup {finalPath(c)} ELSE durable
    /\ pc' = [pc EXCEPT ![c] = "returned"]
    /\ res' = [res EXCEPT ![c] = "stored"]
    /\ UNCHANGED <<callVars, n, cancelled, tmpfiles, final, crashed, histVars>>
    /\ UNCHANGED <<metaVars, cmdVars, sideVars, auxVars>>

(***************************************************************************)
(* A crash: every call stops where it is; a directory entry that has not   *)
(* reached the disk may or may not be there after the restart.             *)
(***************************************************************************)
Crash ==
    /\ ~crashed
    /\ crashed' = TRUE
    /\ \E lost \in SUBSET {p \in Paths \ durable : final[p] # NoFile} :
          final' = [p \in Paths |-> IF p \in lost THEN NoFile ELSE final[p]]
    /\ UNCHANGED <<pc, callVars, n, cancelled, res, tmpfiles, durable, histVars>>
    /\ UNCHANGED <<metaVars, cmdVars, sideVars, auxVars>>


(***************************************************************************)
(* The metadata store: modctl.db, an SQLite database opened in WAL mode.   *)
(* Each modctl process runs one command at a time.  A statement run on q   *)
(* commits by itself; a statement run on qtx = q.WithTx(tx) belongs to the *)
(* transaction, which takes its snapshot at its first statement, needs the *)
(* write lock for its first write, and cannot be upgraded from a snapshot  *)
(* that a later commit has made stale (SQLITE_BUSY_SNAPSHOT).              *)
(***************************************************************************)
\* rowids: an insert that would need a larger rowid is not attempted
MaxId == 3
\* NULL in a column that holds a rowid
Null == 0

\* store_game_id of the installs discovery may find (store steam, instance default)
GameKeys == {"440"}
ProfileNames == {"default", "alt"}
\* the names profiles rename gives: a name no command looks up as well
RenameNames == ProfileNames \cup {"x"}

SetMax(S) == CHOOSE x \in S : \A y \in S : y <= x
\* the rowid SQLite gives the next row of an INTEGER PRIMARY KEY table
NextId(rows) == IF rows = {} THEN 1 ELSE SetMax({r.id : r \in rows}) + 1

\* the tables: game_installs, profiles, profile_items, blobs, mod_pages,
\* mod_files, mod_file_versions, targets, backups, overrides,
\* installed_files, operation_changes
EmptyDb == [installs |-> {}, profiles |-> {}, items |-> {}, blobs |-> {},
            pages |-> {}, files |-> {}, versions |-> {}, targets |-> {},
            backups |-> {}, overrides |-> {}, ifiles |-> {}, changes |-> {}]
NoSnap == [installs |-> "none"]

\* a process between two commands; the fields are the running command's locals
IdleProc == [pc |-> "idle", cmd |-> "none", gi |-> 0, name |-> "", name2 |-> "",
             pid |-> 0, found |-> <<>>, scan |-> <<>>, libs |-> NoScan,
             didScan |-> FALSE, ver |-> 0, prio |-> 0,
             sha |-> <<>>, size |-> 0, page |-> 0, file |-> 0,
             pageArg |-> 0, nexus |-> "none", label |-> "",
             path |-> <<>>, rm |-> FALSE, listed |-> "no",
             flagGame |-> 0, flagProfile |-> "", item |-> 0, dirty |-> FALSE,
             source |-> ""]

\* idle processes are interchangeable: the next command runs on the first one
FirstIdle(p) == proc[p].pc = "idle" /\ \A q \in Procs : q < p => proc[q].pc # "idle"

\* what a statement of p's transaction reads
View(p) == IF tx[p] = NoSnap THEN db ELSE tx[p]

\* p's transaction may write: nobody else holds the write lock, and no
\* commit has happened since p's snapshot
CanWrite(p) == writer \in {0, p} /\ ~stale[p]

\* after a statement that commits by itself: when it wrote a row, every
\* open snapshot is stale; a statement that matched no row writes no page
StaleAfterWrite(matched) ==
    [q \in Procs |-> stale[q] \/ (matched /\ tx[q] # NoSnap)]

\* after a commit by p: when the transaction wrote a row (proc[p].dirty),
\* every other open snapshot is stale
StaleAfterCommit(p) ==
    [q \in Procs |-> IF q = p THEN FALSE
                     ELSE (stale[q] \/ (proc[p].dirty /\ tx[q] # NoSnap))]

\* the command of p ends: defer tx.Rollback() drops what was not committed
Finish(p) ==
    /\ proc' = [proc EXCEPT ![p] = IdleProc]
    /\ tx' = [tx EXCEPT ![p] = NoSnap]
    /\ writer' = IF writer = p THEN 0 ELSE writer
    /\ stale' = [stale EXCEPT ![p] = FALSE]

\* tx.Commit() of p followed by the successful return
CommitAndFinish(p) ==
    /\ db' = View(p)
    /\ proc' = [proc EXCEPT ![p] = IdleProc]
    /\ tx' = [tx EXCEPT ![p] = NoSnap]
    /\ writer' = 0
    /\ stale' = StaleAfterCommit(p)

\* an INSERT, UPDATE or DELETE of p's transaction: it takes the write
\* lock, the tables become newdb, and the transaction is dirty when the
\* statement matched a row
TxWriteRows(p, newdb, nextpc, matched) ==
    /\ CanWrite(p)
    /\ tx' = [tx EXCEPT ![p] = newdb]
    /\ writer' = p
    /\ proc' = [proc EXCEPT ![p] = [@ EXCEPT !.pc = nextpc,
                                              !.dirty = @ \/ matched]]
    /\ UNCHANGED <<db, stale>>

\* the same for a statement that changes every row it matches
TxWrite(p, newdb, nextpc) == TxWriteRows(p, newdb, nextpc, newdb # View(p))

(***************************************************************************)
(* The schema.                                                             *)
(***************************************************************************)
\* game_installs: UNIQUE (store_id, store_game_id, instance_id)
InstallsSchemaOK(rows) ==
    \A r1, r2 \in rows : (r1.key = r2.key) => r1 = r2

\* profiles: UNIQUE(game_install_id, name) and the partial unique index
\* uq_profiles_one_active_per_install ON profiles(game_install_id)
\* WHERE is_active = TRUE
ProfilesSchemaNone(rows) == TRUE
ProfilesSchemaOK(rows) ==
    /\ \A r1, r2 \in rows : (r1.gi = r2.gi /\ r1.name = r2.name) => r1 = r2
    /\ \A r1, r2 \in rows : (r1.gi = r2.gi /\ r1.active /\ r2.active) => r1 = r2

(***************************************************************************)
(* The queries.                                                            *)
(***************************************************************************)
MarkStoreInstallsNotPresent(rows) ==
    {[r EXCEPT !.present = FALSE] : r \in rows}

\* ON CONFLICT (store_id, store_game_id, instance_id) DO UPDATE SET ...
\* is_present = TRUE
UpsertGameInstallKeepsFlag(rows, key) ==
    IF \E r \in rows : r.key = key
    THEN rows
    ELSE rows \cup {[id |-> NextId(rows), key |-> key, present |-> TRUE,
                     applied |-> Null]}
UpsertGameInstall(rows, key) ==
    IF \E r \in rows : r.key = key
    THEN {IF r.key = key THEN [r EXCEPT !.present = TRUE] ELSE r : r \in rows}
    ELSE rows \cup {[id |-> NextId(rows), key |-> key, present |-> TRUE,
                     applied |-> Null]}

InstallId(rows, key) == (CHOOSE r \in rows : r.key = key).id

EnsureDefaultProfile(rows, gi) ==
    IF \E r \in rows : r.gi = gi
    THEN rows
    ELSE rows \cup {[id |-> NextId(rows), gi |-> gi, name |-> "default",
                     active |-> TRUE]}

CreateProfile(rows, gi, name) ==
    rows \cup {[id |-> NextId(rows), gi |-> gi, name |-> name, active |-> FALSE]}

GetProfileByName(rows, gi, name) == {r \in rows : r.gi = gi /\ r.name = name}

RenameProfile(rows, id, name) ==
    {IF r.id = id THEN [r EXCEPT !.name = name] ELSE r : r \in rows}

DeactivateProfilesForGame(rows, gi) ==
    {IF r.gi = gi /\ r.active THEN [r EXCEPT !.active = FALSE] ELSE r : r \in rows}

ActivateProfileByName(rows, gi, name) ==
    {IF r.gi = gi /\ r.name = name THEN [r EXCEPT !.active = TRUE] ELSE r : r \in rows}

GetTargetByName(rows, gi, name) == {r \in rows : r.gi = gi /\ r.name = name}

\* INSERT ... ON CONFLICT (game_install_id, name) DO UPDATE: root_path,
\* origin and metadata are set, the row keeps its id
UpsertDiscoveredTarget(rows, gi, name, root) ==
    IF GetTargetByName(rows, gi, name) # {}
    THEN {IF r.gi = gi /\ r.name = name
          THEN [r EXCEPT !.root = root, !.origin = "discovered", !.meta = "null"]
          ELSE r : r \in rows}
    ELSE rows \cup {[id |-> NextId(rows), gi |-> gi, name |-> name, root |-> root,
                     origin |-> "discovered", meta |-> "null"]}

\* if t.Origin == "user_override" { return nil }
IsUserOverrideNever(t) == FALSE
IsUserOverride(t) == t.origin = "user_override"

\* the targets table after upsertGameDirTarget
upsertGameDirTarget(rows, gi, root) ==
    LET hit == GetTargetByName(rows, gi, "game_dir") IN
    IF hit # {} /\ IsUserOverride(CHOOSE r \in hit : TRUE)
    THEN rows
    ELSE UpsertDiscoveredTarget(rows, gi, "game_dir", root)

\* DELETE FROM profiles WHERE id = ?, with the foreign keys that refer to
\* the row: profile_items.profile_id and overrides.profile_id are ON DELETE
\* CASCADE, and installed_files.owner_override_id is ON DELETE RESTRICT, so
\* the statement fails, and deletes nothing, when an override of the
\* profile owns an installed file; game_installs.applied_profile_id is ON
\* DELETE SET NULL
DeleteProfileByID(d, id) ==
    LET gone == {o \in d.overrides : o.profile = id} IN
    IF \E o \in gone, f \in d.ifiles : f.override = o.id
    THEN d
    ELSE [d EXCEPT !.profiles = {r \in d.profiles : r.id # id},
                   !.items = {r \in d.items : r.profile # id},
                   !.overrides = @ \ gone,
                   !.installs = {IF r.applied = id THEN [r EXCEPT !.applied = Null]
                                 ELSE r : r \in d.installs}]

(***************************************************************************)
(* A command fails where it stands: the interrupt cancels ctx, or the      *)
(* statement returns an I/O or busy error.  The handler returns the error  *)
(* and the deferred tx.Rollback() runs.                                    *)
(***************************************************************************)
Fail(p) ==
    /\ proc[p].pc # "idle"
    /\ Finish(p)
    /\ UNCHANGED <<db, recorded>>
    /\ UNCHANGED <<blobVars, cmdVars, sideVars, auxVars>>

(***************************************************************************)
(* games refresh: ScanStores and refreshSteam.  installs is what           *)
(* discoverSteamInstalls returned, in its order, each install with its     *)
(* key (store_game_id and instance_id) and its install root; libs are the  *)
(* libraries discoverSteamLibraries returned, and didScan tells whether a  *)
(* libraryfolders.vdf was parsed.                                          *)
(***************************************************************************)
\* if !didScan { return nil }
didScanIgnored(didScan) == TRUE
didScanChecked(didScan) == didScan

\* refreshSteam up to db.BeginTx
RefreshBegin(p, installs, libs, didScan) ==
    /\ FirstIdle(p)
    /\ proc' = [proc EXCEPT ![p] =
                  IF didScanChecked(didScan)
                  THEN [IdleProc EXCEPT !.cmd = "refresh", !.found = installs,
                                        !.scan = installs, !.libs = libs,
                                        !.didScan = didScan,
                                        !.pc = "mark"]
                  ELSE IdleProc]
    /\ UNCHANGED <<db, tx, writer, stale, recorded>>
    /\ UNCHANGED <<blobVars, cmdVars, sideVars, auxVars>>

\* the installs discovery found are taken in the order of their keys
FirstKey(S) == CHOOSE k \in S : \A j \in S : <<k, j>> \in
                  {<<"440", "440">>, <<"440", "570">>, <<"570", "570">>}

RECURSIVE InstallsOf(_, _)
InstallsOf(found, root) ==
    IF found = {} THEN <<>>
    ELSE LET k == FirstKey(found) IN
         <<[key |-> k, root |-> root]>> \o InstallsOf(found \ {k}, root)

\* a refresh whose discovery found the installs of the keys found, all
\* under the install root root
RefreshStart(p, found, root, didScan) ==
    RefreshBegin(p, InstallsOf(found, root), NoScan, didScan)

\* qtx.MarkStoreInstallsNotPresent(ctx, "steam"), the transaction's first statement
RefreshMark(p) ==
    /\ proc[p].pc = "mark"
    /\ CanWrite(p)
    /\ TxWriteRows(p, [View(p) EXCEPT !.installs = MarkStoreInstallsNotPresent(@)],
                   IF proc[p].found = <<>> THEN "commit" ELSE "installs",
                   View(p).installs # {})
    /\ UNCHANGED recorded
    /\ UNCHANGED <<blobVars, cmdVars, sideVars, auxVars>>

\* one iteration of the loop over installs: UpsertGameInstall,
\* upsertGameDirTarget, EnsureDefaultProfile
RefreshInstall(p) ==
    /\ proc[p].pc = "installs"
    /\ proc[p].found # <<>>
    /\ LET di == Head(proc[p].found)
           ins == UpsertGameInstall(tx[p].installs, di.key)
           tgs == upsertGameDirTarget(tx[p].targets, InstallId(ins, di.key), di.root)
           prs == EnsureDefaultProfile(tx[p].profiles, InstallId(ins, di.key))
       IN /\ \A r \in ins \cup prs : r.id <= MaxId
          /\ IF InstallsSchemaOK(ins) /\ ProfilesSchemaOK(prs)
             THEN /\ tx' = [tx EXCEPT ![p] = [@ EXCEPT !.installs = ins,
                                                        !.targets = tgs,
                                                        !.profiles = prs]]
                  /\ proc' = [proc EXCEPT ![p] =
                                [@ EXCEPT !.found = Tail(@),
                                          !.dirty = TRUE,
                                          !.pc = IF Len(proc[p].found) = 1
                                                 THEN "commit" ELSE "installs"]]
                  /\ UNCHANGED <<writer, stale>>
             ELSE Finish(p)
    /\ UNCHANGED <<db, recorded>>
    /\ UNCHANGED <<blobVars, cmdVars, sideVars, auxVars>>

\* tx.Commit(); lastLibs remembers the libraries of the committed refresh
RefreshCommit(p) ==
    /\ proc[p].pc = "commit"
    /\ proc[p].cmd = "refresh"
    /\ CommitAndFinish(p)
    /\ lastLibs' = proc[p].libs
    /\ UNCHANGED recorded
    /\ UNCHANGED <<loop, selector>>
    /\ UNCHANGED <<blobVars, cmdVars, sideVars>>

(***************************************************************************)
(* profiles create NAME: ResolveGameInstallArg and q.CreateProfile, one    *)
(* statement that commits by itself.                                       *)
(***************************************************************************)
ProfilesCreate(p, gi, name) ==
    /\ FirstIdle(p)
    /\ writer = 0
    /\ \E r \in db.installs : r.id = gi
    /\ LET prs == CreateProfile(db.profiles, gi, name) IN
       /\ \A r \in prs : r.id <= MaxId
       /\ IF ProfilesSchemaOK(prs)
          THEN /\ db' = [db EXCEPT !.profiles = prs]
               /\ stale' = StaleAfterWrite(TRUE)
          ELSE UNCHANGED <<db, stale>>
    /\ UNCHANGED <<proc, tx, writer, recorded>>
    /\ UNCHANGED <<blobVars, cmdVars, sideVars, auxVars>>

(***************************************************************************)
(* profiles rename OLD NEW: q.GetProfileByName, then q.RenameProfile.      *)
(***************************************************************************)
RenameLookup(p, gi, old, new) ==
    /\ FirstIdle(p)
    /\ \E r \in db.installs : r.id = gi
    /\ LET hit == GetProfileByName(db.profiles, gi, old) IN
       proc' = [proc EXCEPT ![p] =
                  IF hit = {}
                  THEN IdleProc
                  ELSE [IdleProc EXCEPT !.cmd = "rename", !.name2 = new,
                                        !.pc = "rename",
                                        !.pid = (CHOOSE r \in hit : TRUE).id]]
    /\ UNCHANGED <<db, tx, writer, stale, recorded>>
    /\ UNCHANGED <<blobVars, cmdVars, sideVars, auxVars>>

RenameExec(p) ==
    /\ proc[p].pc = "rename"
    /\ writer = 0
    /\ LET prs == RenameProfile(db.profiles, proc[p].pid, proc[p].name2) IN
       IF ProfilesSchemaOK(prs)
       THEN /\ db' = [db EXCEPT !.profiles = prs]
            /\ stale' = StaleAfterWrite(\E r \in db.profiles : r.id = proc[p].pid)
            /\ proc' = [proc EXCEPT ![p] = IdleProc]
       ELSE /\ proc' = [proc EXCEPT ![p] = IdleProc]
            /\ UNCHANGED <<db, stale>>
    /\ UNCHANGED <<tx, writer, recorded>>
    /\ UNCHANGED <<blobVars, cmdVars, sideVars, auxVars>>

(***************************************************************************)
(* profiles set-active NAME.                                               *)
(***************************************************************************)
\* the querier the two UPDATEs of set-active run on
SetActiveQuerierNoTx == "q"
SetActiveQuerier == "qtx"

\* q.GetProfileByName: not found is an error, already active is a success
SetActiveLookup(p, gi, name) ==
    /\ FirstIdle(p)
    /\ \E r \in db.installs : r.id = gi
    /\ LET hit == GetProfileByName(db.profiles, gi, name)
           base == [IdleProc EXCEPT !.cmd = "setActive", !.gi = gi, !.name = name]
       IN proc' = [proc EXCEPT ![p] =
                     IF hit = {} THEN IdleProc
                     ELSE IF (CHOOSE r \in hit : TRUE).active
                          THEN IdleProc
                          ELSE [base EXCEPT !.pc = "deactivate"]]
    /\ UNCHANGED <<db, tx, writer, stale, recorded>>
    /\ UNCHANGED <<blobVars, cmdVars, sideVars, auxVars>>

\* a statement of set-active, run by p on querier qr, that turns the
\* profiles table into prs
ProfilesWrite(p, qr, prs, nextpc) ==
    IF ~ProfilesSchemaOK(prs)
    THEN Finish(p) /\ UNCHANGED db
    ELSE IF qr = "qtx"
         THEN TxWrite(p, [View(p) EXCEPT !.profiles = prs], nextpc)
         ELSE /\ writer = 0
              /\ db' = [db EXCEPT !.profiles = prs]
              /\ stale' = StaleAfterWrite(prs # db.profiles)
              /\ proc' = [proc EXCEPT ![p] = [@ EXCEPT !.pc = nextpc]]
              /\ UNCHANGED <<tx, writer>>

\* the profiles table the querier qr of p reads
ProfilesSeen(p, qr) == IF qr = "qtx" THEN View(p).profiles ELSE db.profiles

SetActiveDeactivate(p) ==
    /\ proc[p].pc = "deactivate"
    /\ ProfilesWrite(p, SetActiveQuerier,
          DeactivateProfilesForGame(ProfilesSeen(p, SetActiveQuerier), proc[p].gi),
          "activate")
    /\ UNCHANGED recorded
    /\ UNCHANGED <<blobVars, cmdVars, sideVars, auxVars>>

SetActiveActivate(p) ==
    /\ proc[p].pc = "activate"
    /\ ProfilesWrite(p, SetActiveQuerier,
          ActivateProfileByName(ProfilesSeen(p, SetActiveQuerier), proc[p].gi,
                                proc[p].name),
          "commit")
    /\ UNCHANGED recorded
    /\ UNCHANGED <<blobVars, cmdVars, sideVars, auxVars>>

SetActiveCommit(p) ==
    /\ proc[p].pc = "commit"
    /\ proc[p].cmd = "setActive"
    /\ CommitAndFinish(p)
    /\ UNCHANGED recorded
    /\ UNCHANGED <<blobVars, cmdVars, sideVars, auxVars>>

(***************************************************************************)
(* profiles delete NAME [--force]: q.GetProfileByName and the guards, then *)
(* a transaction of one statement, DeleteProfileByID.                      *)
(***************************************************************************)
\* game_installs.applied_profile_id of the install, Null when it is NULL
GetAppliedProfileIDForGame(rows, gi) == (CHOOSE r \in rows : r.id = gi).applied

\* force is --force and yesReally is --delete-applied
DeleteLookup(p, gi, name, force, yesReally) ==
    /\ FirstIdle(p)
    /\ \E r \in db.installs : r.id = gi
    /\ LET hit == GetProfileByName(db.profiles, gi, name)
           appliedID == GetAppliedProfileIDForGame(db.installs, gi)
       IN proc' = [proc EXCEPT ![p] =
                     IF hit = {} THEN IdleProc
                     ELSE LET pr == CHOOSE r \in hit : TRUE
                              isApplied == appliedID # Null /\ appliedID = pr.id
                              isActive == pr.active
                          IN IF isActive /\ ~force THEN IdleProc
                             ELSE IF isApplied /\ ~yesReally THEN IdleProc
                             ELSE [IdleProc EXCEPT !.cmd = "delete", !.pc = "delete",
                                                   !.pid = pr.id]]
    /\ UNCHANGED <<db, tx, writer, stale, recorded>>
    /\ UNCHANGED <<blobVars, cmdVars, sideVars, auxVars>>

DeleteExec(p) ==
    /\ proc[p].pc = "delete"
    /\ writer = 0
    /\ db' = DeleteProfileByID(db, proc[p].pid)
    /\ stale' = StaleAfterWrite(DeleteProfileByID(db, proc[p].pid) # db)
    /\ proc' = [proc EXCEPT ![p] = IdleProc]
    /\ UNCHANGED <<tx, writer, recorded>>
    /\ UNCHANGED <<blobVars, cmdVars, sideVars, auxVars>>

(***************************************************************************)
(* mods import: ImportArchive.  The archive is ingested first, outside the *)
(* transaction; the rows are then written in one transaction.  The command *)
(* is run without --nexus-url, --name or --label.                          *)
(***************************************************************************)
\* the archives mods import is run on
ImportSources == {"a"}
\* --nexus-url parsed into a game domain and a mod id, or absent
NoNexus == "none"
NexusRefs == {"skyrim/7"}
\* --label; "Main File" when the flag is absent or empty
DefaultLabel == "Main File"
Labels == {DefaultLabel, "Optional"}

ingestVars == <<pc, callVars, n, cancelled, res, tmpfiles, crashed, histVars>>

\* IngestFile(kind, s) when no other call on the same blob overlaps it
IngestFileSeq(store, k, s) ==
    LET size == SrcLen(s)
        path == PathFor(k, StreamedSum(s, size))
        st == store[path]
    IN IF st # NoFile
       THEN [res |-> SizeCheck(st, size), path |-> path, store |-> store]
       ELSE [res |-> "stored", path |-> path,
             store |-> [store EXCEPT ![path] = File(1, s, size)]]

\* existing.Kind != kind
KindMatchesAlways(existing, k) == TRUE
KindMatches(existing, k) == existing.kind = k

\* err is "nil" or the invariant violated; rows is the blobs table afterwards
EnsureBlobRecorded(rows, sha, k, size) ==
    LET hit == {r \in rows : r.sha = sha} IN
    IF hit # {}
    THEN LET existing == CHOOSE r \in hit : TRUE IN
         IF ~KindMatches(existing, k) THEN [err |-> "kind", rows |-> rows]
         ELSE IF existing.size # size THEN [err |-> "size", rows |-> rows]
         ELSE [err |-> "nil", rows |-> rows]
    ELSE [err |-> "nil", rows |-> rows \cup {[sha |-> sha, kind |-> k, size |-> size]}]

\* what the history variable remembers of a call of EnsureBlobRecorded
Outcome(r, sha, k) == <<sha, k, IF r.err = "nil" THEN "ok" ELSE "rejected">>

\* the transaction of the import when IngestFile returns, d being the
\* committed catalog: db.BeginTx is called after the ingest
TxAfterIngestOpen(d) == d
TxAfterIngest(d) == NoSnap

\* ImportArchive up to the os.Stat(finalPath) of IngestFile: an existing
\* file is a dedupe hit and IngestFile returns, a missing one is renamed
\* into place by a later step
ImportArchiveIngest(p, gi, s, pageArg, nexus, label) ==
    /\ LET size == SrcLen(s)
           st == final[PathFor(KindArchive, StreamedSum(s, size))]
           call == [proc[p] EXCEPT !.cmd = "import", !.gi = gi, !.size = size,
                                   !.pageArg = pageArg, !.nexus = nexus,
                                   !.label = label, !.source = s,
                                   !.sha = StreamedSum(s, size)]
       IN IF st = NoFile
          THEN /\ proc' = [proc EXCEPT ![p] = [call EXCEPT !.pc = "ingestRename"]]
               /\ UNCHANGED tx
          ELSE IF SizeCheck(st, size) = "corruption"
          THEN /\ proc' = [proc EXCEPT ![p] = IdleProc]
               /\ UNCHANGED tx
          ELSE /\ proc' = [proc EXCEPT ![p] = [call EXCEPT !.pc = "ensureBlob"]]
               /\ tx' = [tx EXCEPT ![p] = TxAfterIngest(db)]
    /\ UNCHANGED <<final, durable>>
    /\ UNCHANGED ingestVars
    /\ UNCHANGED <<db, writer, stale, recorded>>

\* os.Rename(tmpName, finalPath), which replaces a file another ingest has
\* put there since the os.Stat, then the best-effort fsyncDir and the
\* return of IngestFile with Existed = false
ImportRename(p, ok) ==
    /\ proc[p].pc = "ingestRename"
    /\ LET path == PathFor(KindArchive, proc[p].sha) IN
       /\ final' = [final EXCEPT ![path] = File(p, proc[p].source, proc[p].size)]
       /\ durable' = IF ok THEN durable \cup {path} ELSE durable
    /\ proc' = [proc EXCEPT ![p] = [@ EXCEPT !.pc = "ensureBlob"]]
    /\ tx' = [tx EXCEPT ![p] = TxAfterIngest(db)]
    /\ UNCHANGED ingestVars
    /\ UNCHANGED <<db, writer, stale, recorded>>
    /\ UNCHANGED <<cmdVars, sideVars, auxVars>>

\* os.Rename failing: the second os.Stat decides between a dedupe hit and
\* the rename error
ImportRenameFailed(p) ==
    /\ proc[p].pc = "ingestRename"
    /\ LET st == final[PathFor(KindArchive, proc[p].sha)] IN
       IF st # NoFile /\ SizeCheck(st, proc[p].size) = "existed"
       THEN /\ proc' = [proc EXCEPT ![p] = [@ EXCEPT !.pc = "ensureBlob"]]
            /\ tx' = [tx EXCEPT ![p] = TxAfterIngest(db)]
       ELSE /\ proc' = [proc EXCEPT ![p] = IdleProc]
            /\ UNCHANGED tx
    /\ UNCHANGED <<final, durable>>
    /\ UNCHANGED ingestVars
    /\ UNCHANGED <<db, writer, stale, recorded>>
    /\ UNCHANGED <<cmdVars, sideVars, auxVars>>

\* mods import, from the resolution of the install to the os.Stat of
\* IngestFile
ImportIngest(p, gi, s, pageArg, nexus, label) ==
    /\ FirstIdle(p)
    /\ \E r \in db.installs : r.id = gi
    /\ ImportArchiveIngest(p, gi, s, pageArg, nexus, label)
    /\ UNCHANGED <<cmdVars, sideVars, auxVars>>

\* the first statements of the transaction: GetBlob, then InsertBlob if
\* there is no row
ImportEnsureBlob(p) ==
    /\ proc[p].pc = "ensureBlob"
    /\ LET r == EnsureBlobRecorded(db.blobs, proc[p].sha, KindArchive, proc[p].size) IN
       /\ recorded' = recorded \cup {Outcome(r, proc[p].sha, KindArchive)}
       /\ IF r.err # "nil"
          THEN Finish(p) /\ UNCHANGED db
          ELSE IF r.rows = db.blobs
               THEN /\ tx' = [tx EXCEPT ![p] = db]
                    /\ proc' = [proc EXCEPT ![p] = [@ EXCEPT !.pc = "page"]]
                    /\ UNCHANGED <<db, writer, stale>>
               ELSE TxWrite(p, [db EXCEPT !.blobs = r.rows], "page")
    /\ UNCHANGED <<blobVars, cmdVars, sideVars, auxVars>>

\* a statement of p's transaction that leaves the tables as newdb; one that
\* changes them needs the write lock
TxStmt(p, newdb, newproc) ==
    /\ (newdb # tx[p]) => CanWrite(p)
    /\ tx' = [tx EXCEPT ![p] = newdb]
    /\ writer' = IF newdb # tx[p] THEN p ELSE writer
    /\ proc' = [proc EXCEPT ![p] = [newproc EXCEPT !.dirty = @ \/ newdb # tx[p]]]
    /\ UNCHANGED stale

\* sourceKind: "nexus" when --nexus-url gave a game domain and a mod id
sourceKindLocal(nexus) == "local"
sourceKind(nexus) == IF nexus # NoNexus THEN "nexus" ELSE "local"

GetModPageForGame(rows, id, gi) == {r \in rows : r.id = id /\ r.gi = gi}

GetModPageByNexus(rows, gi, nexus) ==
    {r \in rows : r.gi = gi /\ r.kind = "nexus" /\ r.nexus # NoNexus /\ r.nexus = nexus}

\* uq_mod_pages_nexus ON mod_pages(game_install_id, nexus_game_domain,
\* nexus_mod_id) WHERE source_kind = 'nexus' and neither is NULL
PagesSchemaOK(rows) ==
    \A r1, r2 \in rows :
        (/\ r1.kind = "nexus" /\ r2.kind = "nexus"
         /\ r1.nexus # NoNexus /\ r1.nexus = r2.nexus
         /\ r1.gi = r2.gi) => r1 = r2

\* err is "nil" or "unique"; rows is mod_pages afterwards, id the new rowid
CreateModPage(rows, gi, nexus) ==
    LET row == [id |-> NextId(rows), gi |-> gi, kind |-> sourceKind(nexus),
                nexus |-> nexus]
    IN IF PagesSchemaOK(rows \cup {row})
       THEN [err |-> "nil", rows |-> rows \cup {row}, id |-> row.id]
       ELSE [err |-> "unique", rows |-> rows, id |-> 0]

\* step 5 of ImportArchive: the page given by --page, else the page of the
\* nexus mod, else a new page
ImportPage(p) ==
    /\ proc[p].pc = "page"
    /\ LET rows == tx[p].pages
           byId == GetModPageForGame(rows, proc[p].pageArg, proc[p].gi)
           byNexus == IF proc[p].nexus # NoNexus
                      THEN GetModPageByNexus(rows, proc[p].gi, proc[p].nexus)
                      ELSE {}
           c == CreateModPage(rows, proc[p].gi, proc[p].nexus)
       IN IF proc[p].pageArg # 0
          THEN IF byId = {}
               THEN Finish(p)
               ELSE TxStmt(p, tx[p], [proc[p] EXCEPT !.pc = "file",
                                                     !.page = proc[p].pageArg])
          ELSE IF byNexus # {}
               THEN TxStmt(p, tx[p], [proc[p] EXCEPT !.pc = "file",
                                         !.page = (CHOOSE r \in byNexus : TRUE).id])
               ELSE IF c.err # "nil"
                    THEN Finish(p)
                    ELSE /\ c.id <= MaxId
                         /\ TxStmt(p, [tx[p] EXCEPT !.pages = c.rows],
                                   [proc[p] EXCEPT !.pc = "file", !.page = c.id])
    /\ UNCHANGED <<db, recorded>>
    /\ UNCHANGED <<blobVars, cmdVars, sideVars, auxVars>>

GetModFileByLabel(rows, page, label) == {r \in rows : r.page = page /\ r.label = label}

CountModFilesForPage(rows, page) == Cardinality({r \in rows : r.page = page})

\* is_primary=true only for the first file created under this page
isPrimaryNever(cnt) == FALSE
isPrimary(cnt) == cnt = 0

\* uq_mod_files_primary_page ON mod_files(mod_page_id) WHERE is_primary = 1
\* and uq_mod_files_label_per_page ON mod_files(mod_page_id, label)
FilesSchemaOK(rows) ==
    /\ \A r1, r2 \in rows : (r1.page = r2.page /\ r1.primary /\ r2.primary) => r1 = r2
    /\ \A r1, r2 \in rows : (r1.page = r2.page /\ r1.label = r2.label) => r1 = r2

\* err is "nil" or "unique"; rows is mod_files afterwards, id the new rowid
CreateModFile(rows, page, label, primary) ==
    LET row == [id |-> NextId(rows), page |-> page, label |-> label,
                primary |-> primary]
    IN IF FilesSchemaOK(rows \cup {row})
       THEN [err |-> "nil", rows |-> rows \cup {row}, id |-> row.id]
       ELSE [err |-> "unique", rows |-> rows, id |-> 0]

\* step 6 of ImportArchive: the mod_file of the page by label, found or created
ImportFile(p) ==
    /\ proc[p].pc = "file"
    /\ LET hit == GetModFileByLabel(tx[p].files, proc[p].page, proc[p].label)
           cnt == CountModFilesForPage(tx[p].files, proc[p].page)
           c == CreateModFile(tx[p].files, proc[p].page, proc[p].label, isPrimary(cnt))
       IN IF hit # {}
          THEN TxStmt(p, tx[p], [proc[p] EXCEPT !.pc = "version",
                                    !.file = (CHOOSE r \in hit : TRUE).id])
          ELSE IF c.err # "nil"
               THEN Finish(p)
               ELSE /\ c.id <= MaxId
                    /\ TxStmt(p, [tx[p] EXCEPT !.files = c.rows],
                              [proc[p] EXCEPT !.pc = "version", !.file = c.id])
    /\ UNCHANGED <<db, recorded>>
    /\ UNCHANGED <<blobVars, cmdVars, sideVars, auxVars>>

\* uq_mod_file_versions_file_blob ON mod_file_versions(mod_file_id,
\* archive_sha256)
VersionsSchemaNone(rows) == TRUE
VersionsSchemaOK(rows) ==
    \A r1, r2 \in rows : (r1.file = r2.file /\ r1.sha = r2.sha) => r1 = r2

\* err is "nil" or "unique"; rows is mod_file_versions afterwards, id the
\* new rowid
CreateModFileVersion(rows, file, sha) ==
    LET row == [id |-> NextId(rows), file |-> file, sha |-> sha]
    IN IF VersionsSchemaOK(rows \cup {row})
       THEN [err |-> "nil", rows |-> rows \cup {row}, id |-> row.id]
       ELSE [err |-> "unique", rows |-> rows, id |-> 0]

\* step 7 of ImportArchive: an error returns, and the deferred Rollback
\* drops the transaction
ImportVersion(p) ==
    /\ proc[p].pc = "version"
    /\ LET c == CreateModFileVersion(tx[p].versions, proc[p].file, proc[p].sha) IN
       IF c.err # "nil"
       THEN Finish(p)
       ELSE /\ c.id <= MaxId
            /\ TxStmt(p, [tx[p] EXCEPT !.versions = c.rows],
                      [proc[p] EXCEPT !.pc = "commit", !.ver = c.id])
    /\ UNCHANGED <<db, recorded>>
    /\ UNCHANGED <<blobVars, cmdVars, sideVars, auxVars>>

ImportCommit(p) ==
    /\ proc[p].pc = "commit"
    /\ proc[p].cmd = "import"
    /\ CommitAndFinish(p)
    /\ UNCHANGED recorded
    /\ UNCHANGED <<blobVars, cmdVars, sideVars, auxVars>>

(***************************************************************************)
(* The blob store and the blobs table as a library: IngestFile and         *)
(* EnsureBlobRecorded called with any kind, one call after the other, the  *)
(* record made on a querier that commits by itself.                        *)
(***************************************************************************)
IngestFileCall(k, s, ok) ==
    /\ LET r == IngestFileSeq(final, k, s) IN
       /\ final' = r.store
       /\ durable' = IF r.res = "stored" /\ ok THEN durable \cup {r.path} ELSE durable
    /\ UNCHANGED ingestVars
    /\ UNCHANGED <<metaVars, cmdVars, sideVars, auxVars>>

EnsureBlobRecordedCall(k, s) ==
    /\ writer = 0
    /\ LET sha == sha256(s, SrcLen(s))
           r == EnsureBlobRecorded(db.blobs, sha, k, SrcLen(s))
       IN /\ db' = [db EXCEPT !.blobs = r.rows]
          /\ recorded' = recorded \cup {Outcome(r, sha, k)}
    /\ UNCHANGED <<tx, writer, stale, proc>>
    /\ UNCHANGED <<blobVars, cmdVars, sideVars, auxVars>>

(***************************************************************************)
(* profiles add [--profile P] VERSION [--priority N].  Go's int64 and SQLite's INTEGER   *)
(* are 64 bits wide; the model keeps the two's complement arithmetic on    *)
(* IntBits bits.                                                           *)
(***************************************************************************)
\* width of the integers
IntBits == 3
\* mod_file_versions the profile items refer to
NumVersions == 3

MaxInt64 == 2^(IntBits - 1) - 1
MinInt64 == -(2^(IntBits - 1))
\* the value of an int64 expression whose mathematical value is x
WrapInt64(x) == ((x - MinInt64) % (2^IntBits)) + MinInt64

\* the values of --priority tried; 0 is the flag's default
PriorityArgs == {MinInt64, 0, MaxInt64}

\* SELECT CAST(COALESCE(MAX(priority), 0) AS INTEGER)
GetMaxPriorityForProfile(rows, pid) ==
    LET ps == {r.prio : r \in {x \in rows : x.profile = pid}} IN
    IF ps = {} THEN 0 ELSE SetMax(ps)

\* TRUE when the query returns a row
IsPriorityTaken(rows, pid, prio) ==
    \E r \in rows : r.profile = pid /\ r.prio = prio

\* priority := profilesAddPriority; if it is 0, priority = maxPrio + 1
NewPriority(rows, pid, arg) ==
    IF arg = 0 THEN WrapInt64(GetMaxPriorityForProfile(rows, pid) + 1) ELSE arg

\* the explicit priority is refused
PriorityRefused(rows, pid, arg) == arg # 0 /\ IsPriorityTaken(rows, pid, arg)

\* profile_items: UNIQUE(profile_id, mod_file_version_id)
ItemsSchemaOK(rows) ==
    \A r1, r2 \in rows : (r1.profile = r2.profile /\ r1.ver = r2.ver) => r1 = r2

GetActiveProfileForGame(rows, gi) == {r \in rows : r.gi = gi /\ r.active}

\* the profile named arg, or the active profile when arg is empty
ResolveProfileArg(rows, gi, arg) ==
    IF arg # "" THEN GetProfileByName(rows, gi, arg)
    ELSE GetActiveProfileForGame(rows, gi)

\* the values of profilesAddProfile tried: "p" is what the variable holds
\* when --profile is not given (StringVar(&profilesAddProfile, "profile",
\* "p", usage)), the others are given with --profile
AddProfileArgs == {"p", "", "default"}

\* ResolveGameInstallArg and ResolveProfileArg, on q before db.BeginTx;
\* arg is the value of --priority
AddResolve(p, gi, profile, ver, arg) ==
    /\ FirstIdle(p)
    /\ \E r \in db.installs : r.id = gi
    /\ LET ps == ResolveProfileArg(db.profiles, gi, profile) IN
       IF ps = {}
       THEN UNCHANGED proc
       ELSE proc' = [proc EXCEPT ![p] =
                       [IdleProc EXCEPT !.cmd = "add", !.pc = "addRead",
                                        !.gi = gi, !.ver = ver, !.prio = arg,
                                        !.pid = (CHOOSE r \in ps : TRUE).id]]
    /\ UNCHANGED <<db, tx, writer, stale, recorded>>
    /\ UNCHANGED <<blobVars, cmdVars, sideVars, auxVars>>

\* from db.BeginTx to the priority computation: the reads of the
\* transaction, all made on the snapshot its first statement takes
AddRead(p) ==
    /\ proc[p].pc = "addRead"
    /\ LET pid == proc[p].pid
           arg == proc[p].prio
       IN IF ~(\E v \in db.versions : v.id = proc[p].ver)
             \/ PriorityRefused(db.items, pid, arg)
          THEN /\ proc' = [proc EXCEPT ![p] = IdleProc]
               /\ UNCHANGED tx
          ELSE /\ proc' = [proc EXCEPT ![p] =
                             [@ EXCEPT !.pc = "insert",
                                       !.prio = NewPriority(db.items, pid, arg)]]
               /\ tx' = [tx EXCEPT ![p] = db]
    /\ UNCHANGED <<db, writer, stale, recorded>>
    /\ UNCHANGED <<blobVars, cmdVars, sideVars, auxVars>>

\* CreateProfileItem
AddInsert(p) ==
    /\ proc[p].pc = "insert"
    /\ LET rows == tx[p].items \cup
                     {[id |-> NextId(tx[p].items), profile |-> proc[p].pid,
                       ver |-> proc[p].ver, prio |-> proc[p].prio]}
       IN IF ItemsSchemaOK(rows)
          THEN TxWrite(p, [tx[p] EXCEPT !.items = rows], "commit")
          ELSE /\ CanWrite(p)
               /\ Finish(p)
               /\ UNCHANGED db
    /\ UNCHANGED recorded
    /\ UNCHANGED <<blobVars, cmdVars, sideVars, auxVars>>

AddCommit(p) ==
    /\ proc[p].pc = "commit"
    /\ proc[p].cmd = "add"
    /\ CommitAndFinish(p)
    /\ UNCHANGED recorded
    /\ UNCHANGED <<blobVars, cmdVars, sideVars, auxVars>>

(***************************************************************************)
(* The specifications.                                                     *)
(***************************************************************************)
InitMeta ==
    /\ db = EmptyDb
    /\ tx = [p \in Procs |-> NoSnap]
    /\ writer = 0
    /\ stale = [p \in Procs |-> FALSE]
    /\ proc = [p \in Procs |-> IdleProc]
    /\ recorded = {}

Init == InitStore /\ InitMeta

Next ==
    \/ \E c \in Calls, k \in IngestKinds, s \in Sources : Start(c, k, s)
    \/ \E c \in Calls : Cancel(c)
    \/ \E c \in Calls : CopyStep(c)
    \/ \E c \in Calls : SyncClose(c)
    \/ \E c \in Calls : Stat(c)
    \/ \E c \in Calls : Rename(c)
    \/ \E c \in Calls : RenameFailed(c)
    \/ \E c \in Calls, ok \in BOOLEAN : FsyncDir(c, ok)

\* concurrent IngestFile calls on one blob store
Spec == Init /\ [][Next]_vars

NextCrash == Next \/ Crash

\* the same, with a crash of the machine
SpecCrash == Init /\ [][NextCrash]_vars

\* the catalog after games refresh found one install and profiles create
\* added a second profile to it
SeededDb ==
    [EmptyDb EXCEPT
       !.installs = {[id |-> 1, key |-> "440", present |-> TRUE,
                      applied |-> Null]},
       !.targets = {[id |-> 1, gi |-> 1, name |-> "game_dir", root |-> "/lib1",
                     origin |-> "discovered", meta |-> "null"]},
       !.profiles = {[id |-> 1, gi |-> 1, name |-> "default", active |-> TRUE],
                     [id |-> 2, gi |-> 1, name |-> "alt", active |-> FALSE]}]

\* the same catalog after the profile alt was applied to the install, by
\* the apply command the column applied_profile_id is there for
AppliedDb ==
    [SeededDb EXCEPT
       !.installs = {[id |-> 1, key |-> "440", present |-> TRUE, applied |-> 2]}]

\* the blob store is not touched by the profile commands
InitProfiles == InitMeta /\ InitEmptyStore

\* the profile commands start on an empty catalog or on one with an
\* applied profile
InitApplied ==
    /\ InitEmptyStore
    /\ db \in {EmptyDb, AppliedDb}
    /\ tx = [p \in Procs |-> NoSnap]
    /\ writer = 0
    /\ stale = [p \in Procs |-> FALSE]
    /\ proc = [p \in Procs |-> IdleProc]
    /\ recorded = {}

NextProfiles ==
    \/ \E p \in Procs : Fail(p)
    \/ \E p \in Procs, found \in SUBSET GameKeys, didScan \in BOOLEAN :
          RefreshStart(p, found, "/lib1", didScan)
    \/ \E p \in Procs : RefreshMark(p)
    \/ \E p \in Procs : RefreshInstall(p)
    \/ \E p \in Procs : RefreshCommit(p)
    \/ \E p \in Procs, gi \in 1..MaxId, name \in ProfileNames :
          ProfilesCreate(p, gi, name)
    \/ \E p \in Procs, gi \in 1..MaxId, old \in ProfileNames, new \in RenameNames :
          RenameLookup(p, gi, old, new)
    \/ \E p \in Procs : RenameExec(p)
    \/ \E p \in Procs, gi \in 1..MaxId, name \in ProfileNames :
          SetActiveLookup(p, gi, name)
    \/ \E p \in Procs : SetActiveDeactivate(p)
    \/ \E p \in Procs : SetActiveActivate(p)
    \/ \E p \in Procs : SetActiveCommit(p)
    \/ \E p \in Procs, gi \in 1..MaxId, name \in ProfileNames,
          force \in BOOLEAN, yesReally \in BOOLEAN :
          DeleteLookup(p, gi, name, force, yesReally)
    \/ \E p \in Procs : DeleteExec(p)

\* concurrent modctl processes running games refresh and the profiles commands
SpecProfiles == InitApplied /\ [][NextProfiles]_vars

InitAtomic ==
    /\ InitEmptyStore
    /\ db = SeededDb
    /\ tx = [p \in Procs |-> NoSnap]
    /\ writer = 0
    /\ stale = [p \in Procs |-> FALSE]
    /\ proc = [p \in Procs |-> IdleProc]
    /\ recorded = {}

NextAtomic ==
    \/ \E p \in Procs : Fail(p)
    \/ \E p \in Procs, found \in SUBSET GameKeys, didScan \in BOOLEAN :
          RefreshStart(p, found, "/lib1", didScan)
    \/ \E p \in Procs : RefreshMark(p)
    \/ \E p \in Procs : RefreshInstall(p)
    \/ \E p \in Procs : RefreshCommit(p)
    \/ \E p \in Procs, gi \in 1..MaxId, name \in ProfileNames :
          SetActiveLookup(p, gi, name)
    \/ \E p \in Procs : SetActiveDeactivate(p)
    \/ \E p \in Procs : SetActiveActivate(p)
    \/ \E p \in Procs : SetActiveCommit(p)
    \/ \E p \in Procs, gi \in 1..MaxId, s \in ImportSources :
          ImportIngest(p, gi, s, 0, NoNexus, DefaultLabel)
    \/ \E p \in Procs, ok \in BOOLEAN : ImportRename(p, ok)
    \/ \E p \in Procs : ImportRenameFailed(p)
    \/ \E p \in Procs : ImportEnsureBlob(p)
    \/ \E p \in Procs : ImportPage(p)
    \/ \E p \in Procs : ImportFile(p)
    \/ \E p \in Procs : ImportVersion(p)
    \/ \E p \in Procs : ImportCommit(p)

\* the commands that change several rows: games refresh, profiles
\* set-active and mods import, run by concurrent processes and interrupted
SpecAtomic == InitAtomic /\ [][NextAtomic]_vars

\* the catalog after games refresh found two installs
ImportDb ==
    [EmptyDb EXCEPT
       !.installs = {[id |-> 1, key |-> "440", present |-> TRUE,
                      applied |-> Null],
                     [id |-> 2, key |-> "620", present |-> TRUE,
                      applied |-> Null]}]

InitImport ==
    /\ InitEmptyStore
    /\ db = ImportDb
    /\ tx = [p \in Procs |-> NoSnap]
    /\ writer = 0
    /\ stale = [p \in Procs |-> FALSE]
    /\ proc = [p \in Procs |-> IdleProc]
    /\ recorded = {}

NextImport ==
    \/ \E p \in {1} : Fail(p)
    \/ \E p \in {1}, gi \in 1..MaxId, s \in ImportSources,
          pageArg \in 0..MaxId, nexus \in NexusRefs \cup {NoNexus}, label \in Labels :
          ImportIngest(p, gi, s, pageArg, nexus, label)
    \/ \E p \in {1} : ImportRename(p, TRUE)
    \/ \E p \in {1} : ImportRenameFailed(p)
    \/ \E p \in {1} : ImportEnsureBlob(p)
    \/ \E p \in {1} : ImportPage(p)
    \/ \E p \in {1} : ImportFile(p)
    \/ \E p \in {1} : ImportVersion(p)
    \/ \E p \in {1} : ImportCommit(p)

\* mods import commands run one after the other, with every combination of
\* --page, --nexus-url and --label, of one source file
SpecImport == InitImport /\ [][NextImport]_vars

\* install roots discovery may report
Roots == {"/lib1", "/lib2"}

\* the game_dir target of the install, as discovery left it or as the user
\* overrode it
TargetRows ==
    {[id |-> 1, gi |-> 1, name |-> "game_dir", root |-> r, origin |-> "discovered",
      meta |-> "null"] : r \in Roots}
      \cup {[id |-> 1, gi |-> 1, name |-> "game_dir", root |-> "/custom",
              origin |-> "user_override", meta |-> m] : m \in {"null", "{}"}}

InitTargets ==
    /\ InitEmptyStore
    /\ \E t \in TargetRows : db = [SeededDb EXCEPT !.targets = {t}]
    /\ tx = [p \in Procs |-> NoSnap]
    /\ writer = 0
    /\ stale = [p \in Procs |-> FALSE]
    /\ proc = [p \in Procs |-> IdleProc]
    /\ recorded = {}

NextTargets ==
    \/ \E p \in Procs : Fail(p)
    \/ \E p \in Procs, found \in SUBSET GameKeys, root \in Roots, didScan \in BOOLEAN :
          RefreshStart(p, found, root, didScan)
    \/ \E p \in Procs : RefreshMark(p)
    \/ \E p \in Procs : RefreshInstall(p)
    \/ \E p \in Procs : RefreshCommit(p)

\* games refresh run by concurrent processes on a catalog whose game_dir
\* target is discovered or overridden by the user
SpecTargets == InitTargets /\ [][NextTargets]_vars

(***************************************************************************)
(* The schema as SQLite enforces it on single statements: the triggers and *)
(* foreign keys of the tables that reference a blob or a target.  Every    *)
(* row has the one relpath; the columns the constraints do not read are    *)
(* left out.                                                               *)
(***************************************************************************)
\* rows a table of SpecBlobRefs and SpecTargetRefs may hold
MaxRows == 1

\* the digests of the empty file and of two one-byte files
SchemaShas == {sha256(s, len) : s \in Sources, len \in {0, 1}}

\* trg_mfv_archive_blob_kind, trg_backups_blob_kind, trg_overrides_blob_kind
\* (ins and upd): "ok", or why the statement is aborted
BlobKindTriggerNone(blobs, sha, k) == "ok"
BlobKindTrigger(blobs, sha, k) ==
    LET hit == {b \in blobs : b.sha = sha} IN
    IF hit = {} THEN "no blob"
    ELSE IF (CHOOSE b \in hit : TRUE).kind # k THEN "kind"
    ELSE "ok"

\* REFERENCES blobs(sha256)
BlobFK(blobs, sha) == \E b \in blobs : b.sha = sha

\* REFERENCES game_installs(id) and REFERENCES targets(id)
TargetFK(d, gi, target) ==
    /\ \E i \in d.installs : i.id = gi
    /\ \E t \in d.targets : t.id = target

\* trg_installed_files_target_matches_install, trg_backups_target_matches_install,
\* trg_opchg_target_matches_install (ins and upd)
TargetMatchesInstallNone(targets, target, gi) == TRUE
TargetMatchesInstall(targets, target, gi) ==
    \E t \in targets : t.id = target /\ t.gi = gi

\* trg_overrides_profile_target_same_install (ins and upd)
OverrideSameInstall(d, profile, target) ==
    \E pr \in d.profiles, t \in d.targets :
        pr.id = profile /\ t.id = target /\ t.gi = pr.gi

\* UNIQUE(game_install_id, target_id, relpath)
PathUnique(rows) ==
    \A r1, r2 \in rows : (r1.gi = r2.gi /\ r1.target = r2.target) => r1 = r2

\* a statement outside any transaction commits by itself
Autocommit(newdb) ==
    /\ writer = 0
    /\ db' = newdb
    /\ UNCHANGED <<tx, writer, stale, proc, recorded>>
    /\ UNCHANGED <<blobVars, cmdVars, sideVars, auxVars>>

\* the rows of a table after UPDATE ... WHERE id = old.id
Updated(rows, old, new) == (rows \ {old}) \cup {new}

\* InsertBlob; sha256 is the primary key
InsertBlobStmt(sha, k) ==
    /\ ~BlobFK(db.blobs, sha)
    /\ Autocommit([db EXCEPT !.blobs = @ \cup {[sha |-> sha, kind |-> k, size |-> 0]}])

\* INSERT INTO mod_file_versions
InsertVersionStmt(file, sha) ==
    LET c == CreateModFileVersion(db.versions, file, sha) IN
    /\ Cardinality(db.versions) < MaxRows
    /\ BlobKindTrigger(db.blobs, sha, KindArchive) = "ok"
    /\ \E f \in db.files : f.id = file
    /\ BlobFK(db.blobs, sha)
    /\ c.err = "nil"
    /\ Autocommit([db EXCEPT !.versions = c.rows])

\* UPDATE mod_file_versions SET archive_sha256
UpdateVersionBlobStmt(old, sha) ==
    LET rows == Updated(db.versions, old, [old EXCEPT !.sha = sha]) IN
    /\ old \in db.versions
    /\ BlobKindTrigger(db.blobs, sha, KindArchive) = "ok"
    /\ BlobFK(db.blobs, sha)
    /\ VersionsSchemaOK(rows)
    /\ Autocommit([db EXCEPT !.versions = rows])

\* INSERT INTO backups
InsertBackupStmt(gi, target, sha) ==
    LET rows == db.backups \cup {[id |-> NextId(db.backups), gi |-> gi,
                                 target |-> target, sha |-> sha]} IN
    /\ Cardinality(db.backups) < MaxRows
    /\ BlobKindTrigger(db.blobs, sha, KindBackup) = "ok"
    /\ TargetMatchesInstall(db.targets, target, gi)
    /\ TargetFK(db, gi, target)
    /\ BlobFK(db.blobs, sha)
    /\ PathUnique(rows)
    /\ Autocommit([db EXCEPT !.backups = rows])

\* UPDATE backups SET backup_blob_sha256
UpdateBackupBlobStmt(old, sha) ==
    /\ old \in db.backups
    /\ BlobKindTrigger(db.blobs, sha, KindBackup) = "ok"
    /\ BlobFK(db.blobs, sha)
    /\ Autocommit([db EXCEPT !.backups = Updated(@, old, [old EXCEPT !.sha = sha])])

\* UPDATE backups SET game_install_id, target_id
UpdateBackupTargetStmt(old, gi, target) ==
    LET rows == Updated(db.backups, old, [old EXCEPT !.gi = gi, !.target = target]) IN
    /\ old \in db.backups
    /\ TargetMatchesInstall(db.targets, target, gi)
    /\ TargetFK(db, gi, target)
    /\ PathUnique(rows)
    /\ Autocommit([db EXCEPT !.backups = rows])

\* INSERT INTO overrides
InsertOverrideStmt(profile, target, sha) ==
    /\ Cardinality(db.overrides) < MaxRows
    /\ BlobKindTrigger(db.blobs, sha, KindOverride) = "ok"
    /\ OverrideSameInstall(db, profile, target)
    /\ BlobFK(db.blobs, sha)
    /\ Autocommit([db EXCEPT !.overrides = @ \cup
                     {[id |-> NextId(db.overrides), profile |-> profile,
                       target |-> target, sha |-> sha]}])

\* UPDATE overrides SET blob_sha256
UpdateOverrideBlobStmt(old, sha) ==
    /\ old \in db.overrides
    /\ BlobKindTrigger(db.blobs, sha, KindOverride) = "ok"
    /\ BlobFK(db.blobs, sha)
    /\ Autocommit([db EXCEPT !.overrides = Updated(@, old, [old EXCEPT !.sha = sha])])

\* installed_files: CHECK (exactly one of owner_mod_file_version_id and
\* owner_override_id is set)
OneOwner(ver, override) == (ver # Null) # (override # Null)

\* owner_mod_file_version_id REFERENCES mod_file_versions(id),
\* owner_override_id REFERENCES overrides(id)
OwnerFK(d, ver, override) ==
    /\ ver # Null => \E v \in d.versions : v.id = ver
    /\ override # Null => \E o \in d.overrides : o.id = override

\* INSERT INTO installed_files
InsertInstalledFileStmt(gi, target, ver, override) ==
    LET rows == db.ifiles \cup {[id |-> NextId(db.ifiles), gi |-> gi,
                                target |-> target, ver |-> ver,
                                override |-> override]} IN
    /\ Cardinality(db.ifiles) < MaxRows
    /\ OneOwner(ver, override)
    /\ TargetMatchesInstall(db.targets, target, gi)
    /\ TargetFK(db, gi, target)
    /\ OwnerFK(db, ver, override)
    /\ PathUnique(rows)
    /\ Autocommit([db EXCEPT !.ifiles = rows])

\* UPDATE installed_files SET game_install_id, target_id
UpdateInstalledFileStmt(old, gi, target) ==
    LET rows == Updated(db.ifiles, old, [old EXCEPT !.gi = gi, !.target = target]) IN
    /\ old \in db.ifiles
    /\ TargetMatchesInstall(db.targets, target, gi)
    /\ TargetFK(db, gi, target)
    /\ PathUnique(rows)
    /\ Autocommit([db EXCEPT !.ifiles = rows])

\* the rowids of the operations table, which no statement here writes
Operations == {1}

\* operation_changes: operation_id INTEGER NOT NULL REFERENCES operations(id)
OperationFK(op) == op # Null /\ op \in Operations

\* INSERT INTO operation_changes
InsertChangeStmt(op, gi, target) ==
    /\ Cardinality(db.changes) < MaxRows
    /\ TargetMatchesInstall(db.targets, target, gi)
    /\ OperationFK(op)
    /\ TargetFK(db, gi, target)
    /\ Autocommit([db EXCEPT !.changes = @ \cup
                     {[id |-> NextId(db.changes), op |-> op, gi |-> gi,
                       target |-> target]}])

\* UPDATE operation_changes SET game_install_id, target_id
UpdateChangeStmt(old, gi, target) ==
    /\ old \in db.changes
    /\ TargetMatchesInstall(db.targets, target, gi)
    /\ TargetFK(db, gi, target)
    /\ Autocommit([db EXCEPT !.changes =
                     Updated(@, old, [old EXCEPT !.gi = gi, !.target = target])])

\* UpsertDiscoveredTarget, the statement of the program that writes targets
UpsertTargetStmt(gi, root) ==
    /\ \E i \in db.installs : i.id = gi
    /\ Autocommit([db EXCEPT !.targets =
                     UpsertDiscoveredTarget(@, gi, "game_dir", root)])

\* DELETE FROM profiles WHERE id = ?, outside any transaction
DeleteProfileStmt(id) == Autocommit(DeleteProfileByID(db, id))

\* two installs with their game_dir targets and default profiles, and one
\* mod file
SchemaDb ==
    [EmptyDb EXCEPT
       !.installs = {[id |-> 1, key |-> "440", present |-> TRUE,
                      applied |-> Null],
                     [id |-> 2, key |-> "620", present |-> TRUE,
                      applied |-> Null]},
       !.targets = {[id |-> 1, gi |-> 1, name |-> "game_dir", root |-> "/lib1",
                     origin |-> "discovered", meta |-> "null"],
                    [id |-> 2, gi |-> 2, name |-> "game_dir", root |-> "/lib1",
                     origin |-> "discovered", meta |-> "null"]},
       !.profiles = {[id |-> 1, gi |-> 1, name |-> "default", active |-> TRUE],
                     [id |-> 2, gi |-> 2, name |-> "default", active |-> TRUE]},
       !.pages = {[id |-> 1, gi |-> 1, kind |-> "local", nexus |-> "none"]},
       !.files = {[id |-> 1, page |-> 1, label |-> "Main File", primary |-> TRUE]}]

InitSchema ==
    /\ InitEmptyStore
    /\ db = SchemaDb
    /\ tx = [p \in Procs |-> NoSnap]
    /\ writer = 0
    /\ stale = [p \in Procs |-> FALSE]
    /\ proc = [p \in Procs |-> IdleProc]
    /\ recorded = {}

NextBlobRefs ==
    \/ \E sha \in SchemaShas, k \in Kinds : InsertBlobStmt(sha, k)
    \/ \E file \in 1..MaxId, sha \in SchemaShas : InsertVersionStmt(file, sha)
    \/ \E old \in db.versions, sha \in SchemaShas : UpdateVersionBlobStmt(old, sha)
    \/ \E gi \in 1..MaxId, target \in 1..MaxId, sha \in SchemaShas :
          InsertBackupStmt(gi, target, sha)
    \/ \E old \in db.backups, sha \in SchemaShas : UpdateBackupBlobStmt(old, sha)
    \/ \E profile \in 1..MaxId, target \in 1..MaxId, sha \in SchemaShas :
          InsertOverrideStmt(profile, target, sha)
    \/ \E old \in db.overrides, sha \in SchemaShas : UpdateOverrideBlobStmt(old, sha)

\* single INSERT and UPDATE statements, with any values, on the blobs table
\* and the tables that reference a blob
SpecBlobRefs == InitSchema /\ [][NextBlobRefs]_vars

\* the catalog of InitSchema with one backup blob recorded, one archive
\* blob that is the one version of the mod file, and one override blob
\* that is an override of the profile of install 2
InitTargetRefs ==
    /\ InitEmptyStore
    /\ db = [SchemaDb EXCEPT
               !.blobs = {[sha |-> sha256("a", 1), kind |-> KindBackup, size |-> 1],
                          [sha |-> sha256("b", 1), kind |-> KindArchive, size |-> 1],
                          [sha |-> sha256("a", 0), kind |-> KindOverride, size |-> 0]},
               !.versions = {[id |-> 1, file |-> 1, sha |-> sha256("b", 1)]},
               !.overrides = {[id |-> 1, profile |-> 2, target |-> 2,
                               sha |-> sha256("a", 0)]}]
    /\ tx = [p \in Procs |-> NoSnap]
    /\ writer = 0
    /\ stale = [p \in Procs |-> FALSE]
    /\ proc = [p \in Procs |-> IdleProc]
    /\ recorded = {}

NextTargetRefs ==
    \/ \E gi \in 1..MaxId, target \in 1..MaxId, sha \in SchemaShas :
          InsertBackupStmt(gi, target, sha)
    \/ \E old \in db.backups, gi \in 1..MaxId, target \in 1..MaxId :
          UpdateBackupTargetStmt(old, gi, target)
    \/ \E gi \in 1..MaxId, target \in 1..MaxId, ver \in 0..1, override \in 0..1 :
          InsertInstalledFileStmt(gi, target, ver, override)
    \/ \E old \in db.ifiles, gi \in 1..MaxId, target \in 1..MaxId :
          UpdateInstalledFileStmt(old, gi, target)
    \/ \E op \in 0..2, gi \in 1..MaxId, target \in 1..MaxId :
          InsertChangeStmt(op, gi, target)
    \/ \E old \in db.changes, gi \in 1..MaxId, target \in 1..MaxId :
          UpdateChangeStmt(old, gi, target)
    \/ \E gi \in 1..MaxId, root \in Roots : UpsertTargetStmt(gi, root)
    \/ \E id \in 1..MaxId : DeleteProfileStmt(id)

\* single INSERT and UPDATE statements, with any values, on the tables that
\* reference a target, the program's upsert of targets and its deletion of
\* a profile
SpecTargetRefs == InitTargetRefs /\ [][NextTargetRefs]_vars

(***************************************************************************)
(* mods import as a command: the --rm safety checks, prepareImportArchive, *)
(* ImportArchive, and the removal of the input.  A path is the sequence of *)
(* its characters.                                                         *)
(***************************************************************************)
Separator == "/"
DotDot == <<".", ".">>

\* viper archives_dir and the working directory of the process
ArchivesDir == <<"/", "s", "/", "a">>
Getwd == <<"/", "s">>

\* the input files: under the store, beside it with the store's name as a
\* string prefix, relative to the working directory, through "..", and
\* with a name that begins with two dots
InputPaths ==
    {<<"/", "s", "/", "a", "/", "x">>,
     <<"/", "s", "/", "a", "b", "/", "x">>,
     <<"a", "/", "x">>,
     <<"/", "s", "/", "b", "/", ".", ".", "/", "a", "/", "x">>,
     <<"/", "s", "/", "a", "/", ".", ".", "/", "x">>,
     <<"/", "s", "/", "a", "/", ".", ".", "x">>}

IsAbs(path) == Len(path) > 0 /\ path[1] = Separator

HasPrefix(str, prefix) ==
    Len(str) >= Len(prefix) /\ SubSeq(str, 1, Len(prefix)) = prefix

\* the elements of a path, the empty ones left out
RECURSIVE Elements(_)
Elements(path) ==
    IF path = <<>> THEN <<>>
    ELSE LET seps == {i \in 1..Len(path) : path[i] = Separator}
             k == IF seps = {} THEN Len(path) + 1
                  ELSE CHOOSE i \in seps : \A j \in seps : i <= j
             head == SubSeq(path, 1, k - 1)
             rest == Elements(SubSeq(path, k + 1, Len(path)))
         IN IF head = <<>> THEN rest ELSE <<head>> \o rest

\* filepath.Clean of a rooted path, on its elements: "." is dropped, ".."
\* removes the element before it and is dropped at the root
RECURSIVE Clean(_, _)
Clean(elems, out) ==
    IF elems = <<>> THEN out
    ELSE LET e == Head(elems) IN
         IF e = <<".">> THEN Clean(Tail(elems), out)
         ELSE IF e = DotDot
              THEN Clean(Tail(elems),
                         IF out = <<>> THEN out ELSE SubSeq(out, 1, Len(out) - 1))
              ELSE Clean(Tail(elems), Append(out, e))

\* filepath.Abs: the elements of Clean(path), or of Clean(Join(wd, path))
Abs(path) ==
    IF IsAbs(path) THEN Clean(Elements(path), <<>>)
    ELSE Clean(Elements(Getwd) \o Elements(path), <<>>)

RECURSIVE Join(_)
Join(elems) ==
    IF elems = <<>> THEN <<>>
    ELSE IF Len(elems) = 1 THEN elems[1]
    ELSE elems[1] \o <<Separator>> \o Join(Tail(elems))

\* filepath.Rel of two absolute clean paths: ".." for every element of base
\* after the common prefix, then what is left of targ
Rel(base, targ) ==
    LET common == {k \in 0..Min(Len(base), Len(targ)) :
                      SubSeq(base, 1, k) = SubSeq(targ, 1, k)}
        k0 == SetMax(common)
        ups == [i \in 1..(Len(base) - k0) |-> DotDot]
        elems == ups \o SubSeq(targ, k0 + 1, Len(targ))
    IN IF elems = <<>> THEN <<".">> ELSE Join(elems)

\* strings.HasPrefix(path, dir)
IsUnderDirByPrefix(path, dir) == HasPrefix(path, dir)
IsUnderDir(path, dir) ==
    LET rel == Rel(Abs(dir), Abs(path)) IN
    IF rel = <<".">> THEN TRUE
    ELSE IF HasPrefix(rel, DotDot \o <<Separator>>) \/ rel = DotDot THEN FALSE
    ELSE IF IsAbs(rel) THEN FALSE
    ELSE TRUE

\* what Lstat reports of the input
FileTypes == {"regular", "symlink", "dir"}

\* the safety checks for --rm: "nil", or the error returned
rmSafety(path, rm, ftype) ==
    IF ~rm THEN "nil"
    ELSE IF ftype = "symlink" THEN "rm-symlink"
    ELSE IF ftype # "regular" THEN "rm-not-regular"
    ELSE IF IsUnderDir(path, ArchivesDir) THEN "rm-inside-store"
    ELSE "nil"

\* mods import up to the safety checks
CmdStart(p, path, rm, ftype) ==
    /\ FirstIdle(p)
    /\ path \notin removed
    /\ LET err == rmSafety(path, rm, ftype) IN
       IF err # "nil"
       THEN /\ refusal' = [path |-> path, err |-> err]
            /\ UNCHANGED proc
       ELSE /\ proc' = [proc EXCEPT ![p] =
                          [IdleProc EXCEPT !.cmd = "import", !.pc = "prepare",
                                           !.path = path, !.rm = rm]]
            /\ UNCHANGED refusal
    /\ UNCHANGED <<db, tx, writer, stale, recorded, removed>>
    /\ UNCHANGED <<blobVars, sideVars, auxVars>>

\* lists, wrapLists: bsdtar -t succeeds on the input, on the wrap; wrapOk:
\* wrapIntoTarGz succeeds.  listed is the file whose listing succeeded.
prepareImportArchiveUnlisted(lists, wrapOk, wrapLists) ==
    [err |-> "nil", listed |-> "no"]
prepareImportArchive(lists, wrapOk, wrapLists) ==
    IF lists THEN [err |-> "nil", listed |-> "input"]
    ELSE IF ~wrapOk THEN [err |-> "wrap", listed |-> "no"]
    ELSE IF ~wrapLists THEN [err |-> "bad-archive", listed |-> "no"]
    ELSE [err |-> "nil", listed |-> "wrap"]

CmdPrepare(p, lists, wrapOk, wrapLists) ==
    /\ proc[p].cmd = "import"
    /\ proc[p].pc = "prepare"
    /\ LET r == prepareImportArchive(lists, wrapOk, wrapLists) IN
       IF r.err # "nil"
       THEN /\ refusal' = [path |-> proc[p].path, err |-> r.err]
            /\ proc' = [proc EXCEPT ![p] = IdleProc]
       ELSE /\ proc' = [proc EXCEPT ![p] =
                          [@ EXCEPT !.pc = "ingest", !.listed = r.listed]]
            /\ UNCHANGED refusal
    /\ UNCHANGED <<db, tx, writer, stale, recorded, removed>>
    /\ UNCHANGED <<blobVars, sideVars, auxVars>>

\* ResolveGameInstallArg, then ImportArchive up to the os.Stat of IngestFile
CmdIngest(p, gi, s) ==
    /\ proc[p].cmd = "import"
    /\ proc[p].pc = "ingest"
    /\ IF \E r \in db.installs : r.id = gi
       THEN ImportArchiveIngest(p, gi, s, 0, NoNexus, DefaultLabel)
       ELSE /\ proc' = [proc EXCEPT ![p] = IdleProc]
            /\ UNCHANGED <<db, tx, writer, stale, recorded>>
            /\ UNCHANGED blobVars
    /\ UNCHANGED <<cmdVars, sideVars, auxVars>>

\* tx.Commit and the return of ImportArchive; with --rm the command goes
\* on to remove its input
CmdCommit(p) ==
    /\ proc[p].pc = "commit"
    /\ proc[p].cmd = "import"
    /\ db' = View(p)
    /\ proc' = [proc EXCEPT ![p] =
                  IF proc[p].rm THEN [IdleProc EXCEPT !.cmd = "import",
                                                      !.pc = "removeInput",
                                                      !.rm = TRUE,
                                                      !.path = proc[p].path,
                                                      !.listed = proc[p].listed]
                  ELSE IdleProc]
    /\ tx' = [tx EXCEPT ![p] = NoSnap]
    /\ writer' = 0
    /\ stale' = StaleAfterCommit(p)
    /\ UNCHANGED <<recorded, removed, refusal>>
    /\ UNCHANGED <<blobVars, sideVars, auxVars>>

\* os.Remove(inputPath), "only after successful import + DB commit"; when
\* it fails the import stays and the command returns the error
CmdRemove(p, ok) ==
    /\ proc[p].pc = "removeInput"
    /\ removed' = IF ok THEN removed \cup {proc[p].path} ELSE removed
    /\ proc' = [proc EXCEPT ![p] = IdleProc]
    /\ UNCHANGED <<db, tx, writer, stale, recorded, refusal>>
    /\ UNCHANGED <<blobVars, sideVars, auxVars>>

InitImportCmd ==
    /\ InitEmptyStore
    /\ db = SeededDb
    /\ tx = [p \in Procs |-> NoSnap]
    /\ writer = 0
    /\ stale = [p \in Procs |-> FALSE]
    /\ proc = [p \in Procs |-> IdleProc]
    /\ recorded = {}

NextImportCmd ==
    \/ \E p \in {1} : Fail(p)
    \/ \E p \in {1}, path \in InputPaths, rm \in BOOLEAN, ftype \in FileTypes :
          CmdStart(p, path, rm, ftype)
    \/ \E p \in {1}, lists \in BOOLEAN, wrapOk \in BOOLEAN, wrapLists \in BOOLEAN :
          CmdPrepare(p, lists, wrapOk, wrapLists)
    \/ \E p \in {1}, gi \in 1..MaxId, s \in ImportSources :
          CmdIngest(p, gi, s)
    \/ \E p \in {1} : ImportRename(p, TRUE)
    \/ \E p \in {1} : ImportRenameFailed(p)
    \/ \E p \in {1} : ImportEnsureBlob(p)
    \/ \E p \in {1} : ImportPage(p)
    \/ \E p \in {1} : ImportFile(p)
    \/ \E p \in {1} : ImportVersion(p)
    \/ \E p \in {1} : CmdCommit(p)
    \/ \E p \in {1}, ok \in BOOLEAN : CmdRemove(p, ok)

\* mods import commands run one after the other, with and without --rm
SpecImportCmd == InitImportCmd /\ [][NextImportCmd]_vars

(***************************************************************************)
(* SaveActive: the record is written to active.json.tmp, which is then     *)
(* renamed onto active.json.  A file is the sequence of the chunks written *)
(* to it, 0 where nothing has been written; a process writes through its   *)
(* descriptor to the file it opened, wherever that file is linked by then. *)
(***************************************************************************)
\* writes it takes to put the record into the file
WriteChunks == 2

\* ActiveGameInstallID of the records written
ActiveIds == {1, 2}

\* the file after open with O_TRUNC, and after the whole record is written
Truncated == [i \in 1..WriteChunks |-> 0]
Marshal(v) == [i \in 1..WriteChunks |-> v]

\* os.WriteFile: OpenFile(tmp, O_WRONLY|O_CREATE|O_TRUNC)
SaveOpen(p, v) ==
    /\ save[p].pc = "idle"
    /\ tmpfile' = Truncated
    /\ save' = [save EXCEPT ![p] = [pc |-> "write", val |-> v, pos |-> 1, fd |-> "tmp"]]
    /\ UNCHANGED sidecar
    /\ UNCHANGED <<blobVars, metaVars, cmdVars, auxVars>>

\* os.WriteFile: f.Write, and f.Close after the last chunk
SaveWrite(p) ==
    /\ save[p].pc = "write"
    /\ tmpfile' = IF save[p].fd = "tmp"
                  THEN [tmpfile EXCEPT ![save[p].pos] = save[p].val]
                  ELSE tmpfile
    /\ sidecar' = IF save[p].fd = "sidecar"
                  THEN [sidecar EXCEPT ![save[p].pos] = save[p].val]
                  ELSE sidecar
    /\ save' = [save EXCEPT ![p] =
                  IF save[p].pos = WriteChunks
                  THEN [@ EXCEPT !.pc = "rename", !.pos = 0, !.fd = "none"]
                  ELSE [@ EXCEPT !.pos = @ + 1]]
    /\ UNCHANGED <<blobVars, metaVars, cmdVars, auxVars>>

\* the descriptor of q after the file at tmp has been renamed onto the
\* sidecar: the file it has open is now the sidecar, or is unlinked
AfterRename(s) ==
    IF s.fd = "tmp" THEN [s EXCEPT !.fd = "sidecar"]
    ELSE IF s.fd = "sidecar" THEN [s EXCEPT !.fd = "unlinked"]
    ELSE s

\* os.Rename(tmp, p); it fails when tmp is not there
SaveRename(p) ==
    /\ save[p].pc = "rename"
    /\ IF tmpfile # NoRecord
       THEN /\ sidecar' = tmpfile
            /\ tmpfile' = NoRecord
            /\ save' = [q \in Procs |-> IF q = p THEN IdleSave ELSE AfterRename(save[q])]
       ELSE /\ save' = [save EXCEPT ![p] = [@ EXCEPT !.pc = "removeTmp"]]
            /\ UNCHANGED <<sidecar, tmpfile>>
    /\ UNCHANGED <<blobVars, metaVars, cmdVars, auxVars>>

\* the descriptor of q after the file at tmp has been unlinked
AfterUnlink(s) == IF s.fd = "tmp" THEN [s EXCEPT !.fd = "unlinked"] ELSE s

\* _ = os.Remove(tmp) after the failed rename, and the return of the error:
\* it unlinks the temp file another SaveActive has created meanwhile
SaveRemoveTmp(p) ==
    /\ save[p].pc = "removeTmp"
    /\ tmpfile' = NoRecord
    /\ save' = [q \in Procs |-> IF q = p THEN IdleSave ELSE AfterUnlink(save[q])]
    /\ UNCHANGED sidecar
    /\ UNCHANGED <<blobVars, metaVars, cmdVars, auxVars>>

\* the process is killed, or the machine stops, inside SaveActive
SaveCrash(p) ==
    /\ save[p].pc # "idle"
    /\ save' = [save EXCEPT ![p] = IdleSave]
    /\ UNCHANGED <<sidecar, tmpfile>>
    /\ UNCHANGED <<blobVars, metaVars, cmdVars, auxVars>>

NextSidecar ==
    \/ \E p \in Procs, v \in ActiveIds : SaveOpen(p, v)
    \/ \E p \in Procs : SaveWrite(p)
    \/ \E p \in Procs : SaveRename(p)
    \/ \E p \in Procs : SaveRemoveTmp(p)
    \/ \E p \in Procs : SaveCrash(p)

\* SaveActive called by concurrent processes that may be killed at any step
SpecSidecar == InitProfiles /\ [][NextSidecar]_vars

NextCatalog ==
    \/ \E k \in IngestKinds, s \in Sources, ok \in BOOLEAN : IngestFileCall(k, s, ok)
    \/ \E k \in IngestKinds, s \in Sources : EnsureBlobRecordedCall(k, s)

\* IngestFile and EnsureBlobRecorded called with any kind
SpecCatalog == InitProfiles /\ [][NextCatalog]_vars

\* the catalog after NumVersions imports of source a into the install,
\* which has the one profile games refresh gave it
ItemsDb ==
    [SeededDb EXCEPT
       !.profiles = {[id |-> 1, gi |-> 1, name |-> "default", active |-> TRUE]},
       !.blobs = {[sha |-> sha256("a", SrcLen("a")), kind |-> KindArchive,
                   size |-> SrcLen("a")]},
       !.pages = {[id |-> i, gi |-> 1, kind |-> "local", nexus |-> "none"] : i \in 1..NumVersions},
       !.files = {[id |-> i, page |-> i, label |-> "Main File", primary |-> TRUE] :
                    i \in 1..NumVersions},
       !.versions = {[id |-> i, file |-> i, sha |-> sha256("a", SrcLen("a"))] :
                       i \in 1..NumVersions}]

InitItems ==
    /\ InitCalls
    /\ final = [EmptyStore EXCEPT
                  ![PathFor(KindArchive, sha256("a", SrcLen("a")))] =
                     File(1, "a", SrcLen("a"))]
    /\ durable = {PathFor(KindArchive, sha256("a", SrcLen("a")))}
    /\ db = ItemsDb
    /\ tx = [p \in Procs |-> NoSnap]
    /\ writer = 0
    /\ stale = [p \in Procs |-> FALSE]
    /\ proc = [p \in Procs |-> IdleProc]
    /\ recorded = {<<sha256("a", SrcLen("a")), KindArchive, "ok">>}

NextItems ==
    \/ \E p \in Procs : Fail(p)
    \/ \E p \in Procs, gi \in 1..MaxId, profile \in AddProfileArgs,
          ver \in 1..NumVersions, arg \in PriorityArgs :
          AddResolve(p, gi, profile, ver, arg)
    \/ \E p \in Procs : AddRead(p)
    \/ \E p \in Procs : AddInsert(p)
    \/ \E p \in Procs : AddCommit(p)

\* concurrent profiles add commands on the profiles of one install
SpecItems == InitItems /\ [][NextItems]_vars

(***************************************************************************)
(* The loops that copy file bytes.  IngestFile and rehashBlobs run         *)
(* copyWithContext on a 1 MiB buffer; wrapIntoTarGz, which has no ctx      *)
(* parameter, runs io.Copy(tw, src), whose loop reads into a buffer of     *)
(* 32 KiB and polls nothing.  A loop is followed from one read to the      *)
(* next; the interrupt may come between any two steps.                     *)
(***************************************************************************)
\* the buffer io.Copy allocates when the caller passes none
IoCopyBuf == 32768

Callers == {"ingest", "rehash", "wrap"}
\* the sizes of the files copied
LoopSizes == {0, 1, BufSize + 1}

\* len(buf) of the loop
BufLen(caller) == IF caller = "wrap" THEN IoCopyBuf ELSE BufSize

\* where the loop of the caller starts an iteration: copyWithContext at its
\* select on ctx.Done(), io.Copy at src.Read
PollsCtx(caller) == caller # "wrap"
LoopTop(caller) == IF PollsCtx(caller) THEN "poll" ELSE "read"

\* the caller opens the file and enters the loop
LoopStart(c, caller, size) ==
    /\ loop[c].pc = "idle"
    /\ loop' = [loop EXCEPT ![c] = [IdleLoop EXCEPT !.pc = LoopTop(caller),
                                                    !.caller = caller,
                                                    !.size = size]]
    /\ UNCHANGED <<lastLibs, selector>>
    /\ UNCHANGED <<blobVars, metaVars, cmdVars, sideVars>>

\* os.Interrupt closes ctx.Done() (signal.NotifyContext in the command)
LoopCancel(c) ==
    /\ loop[c].pc \in {"poll", "read"}
    /\ ~loop[c].cancelled
    /\ loop' = [loop EXCEPT ![c] = [@ EXCEPT !.cancelled = TRUE]]
    /\ UNCHANGED <<lastLibs, selector>>
    /\ UNCHANGED <<blobVars, metaVars, cmdVars, sideVars>>

\* select { case <-ctx.Done(): return total, ctx.Err(); default: }
LoopPoll(c) ==
    /\ loop[c].pc = "poll"
    /\ loop' = [loop EXCEPT ![c] =
                  [@ EXCEPT !.pc = IF loop[c].cancelled THEN "cancelled" ELSE "read"]]
    /\ UNCHANGED <<lastLibs, selector>>
    /\ UNCHANGED <<blobVars, metaVars, cmdVars, sideVars>>

\* nr, er := src.Read(buf) and dst.Write(buf[:nr]); io.EOF ends the loop
LoopRead(c) ==
    /\ loop[c].pc = "read"
    /\ LET nr == Min(BufLen(loop[c].caller), loop[c].size - loop[c].off) IN
       loop' = [loop EXCEPT ![c] =
                  IF nr > 0
                  THEN [@ EXCEPT !.off = @ + nr, !.chunk = nr,
                                 !.after = IF loop[c].cancelled THEN @ + 1 ELSE @,
                                 !.pc = LoopTop(loop[c].caller)]
                  ELSE [@ EXCEPT !.pc = "eof"]]
    /\ UNCHANGED <<lastLibs, selector>>
    /\ UNCHANGED <<blobVars, metaVars, cmdVars, sideVars>>

\* the caller returns; the next file is copied by a new loop
LoopReturn(c) ==
    /\ loop[c].pc \in {"cancelled", "eof"}
    /\ loop' = [loop EXCEPT ![c] = IdleLoop]
    /\ UNCHANGED <<lastLibs, selector>>
    /\ UNCHANGED <<blobVars, metaVars, cmdVars, sideVars>>

NextCopy ==
    \/ \E c \in {1}, caller \in Callers, size \in LoopSizes : LoopStart(c, caller, size)
    \/ \E c \in {1} : LoopCancel(c)
    \/ \E c \in {1} : LoopPoll(c)
    \/ \E c \in {1} : LoopRead(c)
    \/ \E c \in {1} : LoopReturn(c)

\* one file after the other copied by blob ingest, the doctor's re-hash and
\* the wrapping of an import input, with an interrupt at any moment
SpecCopy == InitProfiles /\ [][NextCopy]_vars

(***************************************************************************)
(* Discovery of the Steam libraries and of the installs in them.  The      *)
(* filesystem is fixed: two libraries, given in the order of               *)
(* sort.Strings, each with the appmanifest files of the games installed    *)
(* in it; what changes from one refresh to the next is which libraries     *)
(* libraryfolders.vdf lists.                                               *)
(***************************************************************************)
Libraries == <<"/a", "/b">>
LibrarySets == SUBSET {Libraries[i] : i \in 1..Len(Libraries)}

\* the store_game_ids of <lib>/steamapps/appmanifest_*.acf, sorted
Manifests(lib) ==
    CASE lib = "/a" -> <<"570">>
      [] lib = "/b" -> <<"440">>

\* sort.Strings(libs)
Sorted(libs) == SelectSeq(Libraries, LAMBDA l : l \in libs)

\* "default" for the first library, fmt.Sprintf("library_%d", n) from n = 2
InstanceName(i) == IF i = 1 THEN "default" ELSE "library_" \o ToString(i)

\* the map from library root to instance_id
assignSteamInstanceIDs(libs) ==
    LET sorted == Sorted(libs) IN
    [lib \in libs |-> InstanceName(CHOOSE i \in 1..Len(sorted) : sorted[i] = lib)]

\* key{appid, instance}, the pair by which a scan tells installs apart and
\* the unique columns (store_game_id, instance_id) of a steam install,
\* written as one string: the appid alone for the instance "default", else
\* appid#instance.  An appid holds no "#", so two pairs are equal exactly
\* when their strings are.  This is not ShortSelector: nothing is trimmed
\* and the empty instance is an instance of its own.
Key(appid, instance) ==
    IF instance = "default" THEN appid ELSE appid \o "#" \o instance

\* filepath.Join(steamapps, "common", installdir)
InstallRoot(lib, appid) == lib \o "/steamapps/common/" \o appid

\* the installs of one library, after those in acc; an install whose key
\* was seen before is skipped
RECURSIVE LibraryInstalls(_, _, _, _)
LibraryInstalls(lib, instID, manifests, acc) ==
    IF manifests = <<>> THEN acc
    ELSE LET k == Key(Head(manifests), instID)
             dup == \E i \in 1..Len(acc) : acc[i].key = k
         IN LibraryInstalls(lib, instID, Tail(manifests),
                IF dup THEN acc
                ELSE Append(acc, [key |-> k, root |-> InstallRoot(lib, Head(manifests))]))

\* the string of len spaces
RECURSIVE Spaces(_)
Spaces(len) == IF len = 0 THEN "" ELSE " " \o Spaces(len - 1)

\* strings.TrimSpace(s) == "": s is empty or holds nothing but spaces
IsBlank(s) == s = Spaces(Len(s))

\* the loop over libraryRoots: a library without a mapping, or with a blank
\* instance id, is skipped with a warning
RECURSIVE InstallsFrom(_, _, _)
InstallsFrom(libraryRoots, instanceByLib, acc) ==
    IF libraryRoots = <<>> THEN acc
    ELSE LET lib == Head(libraryRoots) IN
         InstallsFrom(Tail(libraryRoots), instanceByLib,
             IF lib \in DOMAIN instanceByLib /\ ~IsBlank(instanceByLib[lib])
             THEN LibraryInstalls(lib, instanceByLib[lib], Manifests(lib), acc)
             ELSE acc)

discoverSteamInstalls(libraryRoots, instanceByLib) ==
    InstallsFrom(libraryRoots, instanceByLib, <<>>)

\* games refresh on a machine whose libraryfolders.vdf files list libs;
\* parsed tells whether one of them could be parsed
RefreshDiscover(p, libs, parsed) ==
    /\ (libs # {}) => parsed
    /\ RefreshBegin(p, discoverSteamInstalls(Sorted(libs), assignSteamInstanceIDs(libs)),
                    libs, parsed)

\* a catalog in which the user has overridden the game_dir target of the
\* install and made its second profile the active one
CustomDb ==
    [SeededDb EXCEPT
       !.targets = {[id |-> 1, gi |-> 1, name |-> "game_dir", root |-> "/custom",
                     origin |-> "user_override", meta |-> "{}"]},
       !.profiles = {[id |-> 1, gi |-> 1, name |-> "default", active |-> FALSE],
                     [id |-> 2, gi |-> 1, name |-> "alt", active |-> TRUE]}]

InitLibraries ==
    /\ InitEmptyStore
    /\ db \in {EmptyDb, CustomDb}
    /\ tx = [p \in Procs |-> NoSnap]
    /\ writer = 0
    /\ stale = [p \in Procs |-> FALSE]
    /\ proc = [p \in Procs |-> IdleProc]
    /\ recorded = {}

NextLibraries ==
    \/ \E p \in Procs : Fail(p)
    \/ \E p \in Procs, libs \in LibrarySets, parsed \in BOOLEAN :
          RefreshDiscover(p, libs, parsed)
    \/ \E p \in Procs : RefreshMark(p)
    \/ \E p \in Procs : RefreshInstall(p)
    \/ \E p \in Procs : RefreshCommit(p)

\* games refresh run by concurrent processes while Steam libraries are
\* added and removed
SpecLibraries == InitLibraries /\ [][NextLibraries]_vars

(***************************************************************************)
(* The key of the blobs table.  A key is a sequence of characters; the     *)
(* table accepts a row when its CHECK constraints hold and no row has the  *)
(* same primary key:                                                       *)
(*   sha256 TEXT PRIMARY KEY                                               *)
(*     CHECK (LENGTH(sha256) = 64 AND sha256 GLOB '[0-9a-f]*')             *)
(*   kind IN ('archive', 'backup', 'override'), size_bytes >= 0            *)
(***************************************************************************)
ShaLen == 64

HexDigits == {"0", "1", "2", "3", "4", "5", "6", "7", "8", "9",
              "a", "b", "c", "d", "e", "f"}

\* n times the character ch
Rep(ch, len) == [i \in 1..len |-> ch]

\* the keys statements are tried with: digests as hex.EncodeToString writes
\* them, keys that are too short or too long, and keys of the right length
\* with an upper-case or non-hex character in the first place or later
KeyInputs ==
    {Rep("a", ShaLen), Rep("0", ShaLen), <<"9">> \o Rep("f", ShaLen - 1),
     Rep("a", ShaLen - 1), Rep("a", ShaLen + 1), <<>>,
     <<"A">> \o Rep("a", ShaLen - 1), <<"g">> \o Rep("a", ShaLen - 1),
     <<"a">> \o Rep("A", ShaLen - 1), <<"a", "g">> \o Rep("a", ShaLen - 2),
     Rep("a", ShaLen - 1) \o <<"Z">>}

\* str GLOB '[class]*': the bracket matches one character, the star any
\* sequence of characters
GlobClassStar(class, str) == Len(str) >= 1 /\ str[1] \in class

\* the CHECK constraints of a blobs row
BlobsCheck(r) ==
    /\ Len(r.sha) = ShaLen /\ GlobClassStar(HexDigits, r.sha)
    /\ r.kind \in Kinds
    /\ r.size >= 0

\* INSERT INTO blobs (sha256, kind, size_bytes, ...): a statement that
\* commits by itself
InsertBlobRow(key, k, size) ==
    LET r == [sha |-> key, kind |-> k, size |-> size] IN
    /\ Cardinality(db.blobs) <= MaxRows
    /\ BlobsCheck(r)
    /\ ~BlobFK(db.blobs, key)
    /\ Autocommit([db EXCEPT !.blobs = @ \cup {r}])

NextBlobKeys ==
    \E key \in KeyInputs, k \in Kinds \cup {"other"}, size \in {-1, 0, 1} :
        InsertBlobRow(key, k, size)

\* INSERT statements on the blobs table, with any key
SpecBlobKeys == InitProfiles /\ [][NextBlobKeys]_vars

(***************************************************************************)
(* mods import on a store that held a file before: nothing, a file at the  *)
(* path of a's digest that is shorter than a, or a file at that path that  *)
(* has the length of a and other bytes (bit rot or tampering, the cases    *)
(* the sanity check of IngestFile names).                                  *)
(***************************************************************************)
TamperedStore ==
    [EmptyStore EXCEPT ![PathFor(KindArchive, sha256("a", SrcLen("a")))] =
                          File(0, "b", SrcLen("a"))]

InitTampered ==
    /\ InitCalls
    /\ final \in {EmptyStore, DamagedStore(KindArchive), TamperedStore}
    /\ durable = {p \in Paths : final[p] # NoFile}
    /\ db = ImportDb
    /\ tx = [p \in Procs |-> NoSnap]
    /\ writer = 0
    /\ stale = [p \in Procs |-> FALSE]
    /\ proc = [p \in Procs |-> IdleProc]
    /\ recorded = {}

NextTampered ==
    \/ \E p \in {1} : Fail(p)
    \/ \E p \in {1}, gi \in 1..MaxId, s \in ImportSources, label \in Labels :
          ImportIngest(p, gi, s, 0, NoNexus, label)
    \/ \E p \in {1} : ImportRename(p, TRUE)
    \/ \E p \in {1} : ImportRenameFailed(p)
    \/ \E p \in {1} : ImportEnsureBlob(p)
    \/ \E p \in {1} : ImportPage(p)
    \/ \E p \in {1} : ImportFile(p)
    \/ \E p \in {1} : ImportVersion(p)
    \/ \E p \in {1} : ImportCommit(p)

\* mods import commands without --page and --nexus-url, run one after the
\* other on a store that may hold a damaged file
SpecTampered == InitTampered /\ [][NextTampered]_vars

(***************************************************************************)
(* Selectors: ParseSelector.  A string is a sequence of characters; the    *)
(* inputs are the strings of at most MaxSelLen characters over a space,    *)
(* the two separators, an upper-case and a lower-case letter.              *)
(***************************************************************************)
MaxSelLen == 6
SelChars == {" ", ":", "#", "A", "b"}
SelInputs == UNION {[1..len -> SelChars] : len \in 0..MaxSelLen}

\* "default"
DefaultInstance == <<"d", "e", "f", "a", "u", "l", "t">>

\* strings.ToLower, character by character
ToLowerNone(ch) == ch
ToLower(ch) == IF ch = "A" THEN "a" ELSE ch

\* strings.TrimSpace
RECURSIVE TrimLeft(_)
TrimLeft(s) == IF s # <<>> /\ Head(s) = " " THEN TrimLeft(Tail(s)) ELSE s
RECURSIVE TrimRight(_)
TrimRight(s) ==
    IF s # <<>> /\ s[Len(s)] = " " THEN TrimRight(SubSeq(s, 1, Len(s) - 1)) ELSE s
TrimSpace(s) == TrimRight(TrimLeft(s))

\* strings.IndexByte: the index, counted from 0, of the first ch in s, or -1
RECURSIVE IndexByte(_, _)
IndexByte(s, ch) ==
    IF s = <<>> THEN -1
    ELSE IF Head(s) = ch THEN 0
    ELSE LET i == IndexByte(Tail(s), ch) IN IF i < 0 THEN -1 ELSE i + 1

\* s[from:to] of Go
Slice(s, from, to) == SubSeq(s, from + 1, to)

\* strings.Split(s, sep) for a separator of one character
RECURSIVE Split(_, _)
Split(s, sep) ==
    LET i == IndexByte(s, sep) IN
    IF i < 0 THEN <<s>>
    ELSE <<Slice(s, 0, i)>> \o Split(Slice(s, i + 1, Len(s)), sep)

\* the results of ParseSelector: an error with three empty strings, or nil
\* with the three ids
SelectorError == [err |-> "invalid", store |-> <<>>, game |-> <<>>, instance |-> <<>>]
SelectorIds(store, game, instance) ==
    [err |-> "nil", store |-> store, game |-> game, instance |-> instance]

ParseSelector(arg) ==
    LET s == TrimSpace(arg) IN
    IF s = <<>> THEN SelectorError
    ELSE LET colon == IndexByte(s, ":") IN
    IF colon <= 0 \/ colon = Len(s) - 1 THEN SelectorError
    ELSE LET t == TrimSpace(Slice(s, 0, colon))
             storeID == [i \in 1..Len(t) |-> ToLower(t[i])]
             rest == TrimSpace(Slice(s, colon + 1, Len(s)))
    IN
    IF storeID = <<>> \/ rest = <<>> THEN SelectorError
    ELSE LET parts == Split(rest, "#") IN
    IF Len(parts) > 2 THEN SelectorError
    ELSE LET storeGameID == TrimSpace(parts[1]) IN
    IF storeGameID = <<>> THEN SelectorError
    ELSE IF Len(parts) = 1 THEN SelectorIds(storeID, storeGameID, DefaultInstance)
    ELSE LET instanceID == TrimSpace(parts[2]) IN
    IF instanceID = <<>> THEN SelectorError
    ELSE SelectorIds(storeID, storeGameID, instanceID)

\* a caller passes arg to ParseSelector
SelectorCall(arg) ==
    /\ selector = NoSelector
    /\ selector' = [in |-> arg, out |-> PendingResult]
    /\ UNCHANGED <<loop, lastLibs>>
    /\ UNCHANGED <<blobVars, metaVars, cmdVars, sideVars>>

\* ParseSelector returns
SelectorReturn ==
    /\ selector.out = PendingResult
    /\ selector' = [selector EXCEPT !.out = ParseSelector(selector.in)]
    /\ UNCHANGED <<loop, lastLibs>>
    /\ UNCHANGED <<blobVars, metaVars, cmdVars, sideVars>>

NextSelector ==
    \/ selector = NoSelector /\ \E arg \in SelInputs : SelectorCall(arg)
    \/ SelectorReturn

\* one call of ParseSelector on any input
SpecSelector == InitProfiles /\ [][NextSelector]_vars

(***************************************************************************)
(* The --game and --profile flags of profiles remove and profiles rename.  *)
(* A flag is bound to a package variable by init(), which also gives the   *)
(* variable its default; RunE reads package variables.  An install is      *)
(* passed by its id, and 0 stands for the empty string of a --game that    *)
(* was not given.                                                          *)
(***************************************************************************)
FlagProfiles == {"p", "alt"}
NewNames == {"alt", "x"}

\* the package variables after every init() has run: StringVarP(..., "game",
\* "g", "", usage) and StringVar(..., "profile", "p", usage)
FlagDefaults ==
    [profilesAddGame |-> 0, profilesAddProfile |-> "p",
     profilesListGame |-> 0, profilesRenameGame |-> 0,
     profilesRemoveGame |-> 0, profilesRemoveProfile |-> "p"]

\* the package variables after cobra has parsed the flags of the command
ParseRemoveFlags(game, profile) ==
    [FlagDefaults EXCEPT !.profilesRemoveGame = game,
                         !.profilesRemoveProfile = profile]
ParseRenameFlags(game) == [FlagDefaults EXCEPT !.profilesListGame = game]

\* state.LoadActive: no file is the zero record
LoadActive(file) ==
    IF file = NoRecord THEN [err |-> FALSE, id |-> 0]
    ELSE IF file = Marshal(file[1]) /\ file[1] # 0
         THEN [err |-> FALSE, id |-> file[1]]
         ELSE [err |-> TRUE, id |-> 0]

\* "Resolve game install id: --game overrides active selection", on the
\* package variable gameVar: the rows of the resolved install
ResolveGame(gameVar, file, rows) ==
    LET active == LoadActive(file)
        arg == IF gameVar = 0 THEN active.id ELSE gameVar
    IN IF gameVar = 0 /\ (active.err \/ active.id = 0) THEN {}
       ELSE {r \in rows : r.id = arg}

\* SELECT id FROM profile_items WHERE profile_id = ? AND mod_file_version_id = ?
GetProfileItemIDByVersion(rows, pid, ver) ==
    {r \in rows : r.profile = pid /\ r.ver = ver}

\* DELETE FROM profile_items WHERE id = ?
DeleteProfileItemByID(rows, id) == {r \in rows : r.id # id}

\* profiles remove --game game --profile profile ver, up to BeginTx
RemoveLookup(p, game, profile, ver) ==
    /\ FirstIdle(p)
    /\ LET flags == ParseRemoveFlags(game, profile)
           gis == ResolveGame(flags.profilesRenameGame, sidecar, db.installs)
       IN IF gis = {} THEN UNCHANGED proc
          ELSE LET gi == (CHOOSE r \in gis : TRUE).id
                   ps == ResolveProfileArg(db.profiles, gi, flags.profilesAddProfile)
               IN IF ps = {} THEN UNCHANGED proc
                  ELSE LET pid == (CHOOSE r \in ps : TRUE).id
                           ids == GetProfileItemIDByVersion(db.items, pid, ver)
                       IN IF ids = {} THEN UNCHANGED proc
                          ELSE proc' = [proc EXCEPT ![p] =
                                 [IdleProc EXCEPT !.cmd = "remove", !.pc = "removeItem",
                                                  !.gi = gi, !.pid = pid, !.ver = ver,
                                                  !.item = (CHOOSE r \in ids : TRUE).id,
                                                  !.flagGame = game,
                                                  !.flagProfile = profile]]
    /\ UNCHANGED <<db, tx, writer, stale, recorded>>
    /\ UNCHANGED <<blobVars, cmdVars, sideVars, auxVars>>

\* qtx.DeleteProfileItemByID
RemoveDelete(p) ==
    /\ proc[p].pc = "removeItem"
    /\ TxWrite(p, [View(p) EXCEPT !.items = DeleteProfileItemByID(@, proc[p].item)],
               "commit")
    /\ UNCHANGED recorded
    /\ UNCHANGED <<blobVars, cmdVars, sideVars, auxVars>>

RemoveCommit(p) ==
    /\ proc[p].pc = "commit"
    /\ proc[p].cmd = "remove"
    /\ CommitAndFinish(p)
    /\ UNCHANGED recorded
    /\ UNCHANGED <<blobVars, cmdVars, sideVars, auxVars>>

\* profiles rename --game game old new, up to q.RenameProfile
RenameFlagsLookup(p, game, old, new) ==
    /\ FirstIdle(p)
    /\ LET flags == ParseRenameFlags(game)
           gis == ResolveGame(flags.profilesRenameGame, sidecar, db.installs)
       IN IF gis = {} THEN UNCHANGED proc
          ELSE LET gi == (CHOOSE r \in gis : TRUE).id
                   hit == GetProfileByName(db.profiles, gi, old)
               IN IF hit = {} THEN UNCHANGED proc
                  ELSE proc' = [proc EXCEPT ![p] =
                         [IdleProc EXCEPT !.cmd = "rename", !.pc = "rename",
                                          !.gi = gi, !.name = old, !.name2 = new,
                                          !.pid = (CHOOSE r \in hit : TRUE).id,
                                          !.flagGame = game]]
    /\ UNCHANGED <<db, tx, writer, stale, recorded>>
    /\ UNCHANGED <<blobVars, cmdVars, sideVars, auxVars>>

\* the catalog after two installs were found, profiles create added a
\* profile to each, and every profile was given version 1
FlagsDb ==
    [ItemsDb EXCEPT
       !.installs = {[id |-> 1, key |-> "440", present |-> TRUE,
                      applied |-> Null],
                     [id |-> 2, key |-> "620", present |-> TRUE,
                      applied |-> Null]},
       !.profiles = {[id |-> 1, gi |-> 1, name |-> "p", active |-> TRUE],
                     [id |-> 2, gi |-> 1, name |-> "alt", active |-> FALSE],
                     [id |-> 3, gi |-> 2, name |-> "alt", active |-> TRUE]},
       !.items = {[id |-> i, profile |-> i, ver |-> 1, prio |-> 1] : i \in 1..3}]

InitFlags ==
    /\ InitCalls
    /\ final = [EmptyStore EXCEPT
                  ![PathFor(KindArchive, sha256("a", SrcLen("a")))] =
                     File(1, "a", SrcLen("a"))]
    /\ durable = {PathFor(KindArchive, sha256("a", SrcLen("a")))}
    /\ db = FlagsDb
    /\ tx = [p \in Procs |-> NoSnap]
    /\ writer = 0
    /\ stale = [p \in Procs |-> FALSE]
    /\ proc = [p \in Procs |-> IdleProc]
    /\ recorded = {<<sha256("a", SrcLen("a")), KindArchive, "ok">>}

NextFlags ==
    \/ \E p \in {1} : Fail(p)
    \/ \E p \in {1}, v \in ActiveIds : SaveOpen(p, v)
    \/ \E p \in {1} : SaveWrite(p)
    \/ \E p \in {1} : SaveRename(p)
    \/ \E p \in {1}, game \in 0..2, profile \in FlagProfiles :
          RemoveLookup(p, game, profile, 1)
    \/ \E p \in {1} : RemoveDelete(p)
    \/ \E p \in {1} : RemoveCommit(p)
    \/ \E p \in {1}, game \in 0..2, old \in FlagProfiles, new \in NewNames :
          RenameFlagsLookup(p, game, old, new)
    \/ \E p \in {1} : RenameExec(p)

\* games set-active, profiles remove and profiles rename run one after the
\* other with every combination of --game and --profile
SpecFlags == InitFlags /\ [][NextFlags]_vars

(***************************************************************************)
(* Properties of the blob store.                                           *)
(***************************************************************************)
Returned(c) == pc[c] = "returned"
AllReturned == \A c \in Calls : Returned(c)
Succeeded(c) == res[c] \in {"stored", "existed"}

\* file f holds exactly the bytes of source s
HoldsBytesOf(f, s) == f # NoFile /\ f.len = SrcLen(s) /\ (f.len = 0 \/ f.data = s)

\* the blob paths under the root of kind k whose file has the bytes of s
BlobFilesOf(k, s) ==
    {p \in Paths : p[1] = RootFor(k) /\ HoldsBytesOf(final[p], s)}

\* C1: once every IngestFile call has returned, for each call that ingested
\* its bytes successfully the store holds exactly one file with those bytes
\* under the call's kind, it is at PathFor(kind, sha256(bytes)), its length
\* is the length of the bytes, and no temp file is left in incoming.
C1_ExactlyOneFile ==
    AllReturned =>
        /\ tmpfiles = {}
        /\ \A c \in Calls :
              Succeeded(c) =>
                 BlobFilesOf(kind[c], src[c]) =
                    {PathFor(kind[c], sha256(src[c], SrcLen(src[c])))}

\* two interleaved ingests of the same bytes and kind have both returned,
\* one after losing the race to the final path
C1_Witness ==
    /\ AllReturned
    /\ kind[1] = kind[2] /\ src[1] = "a" /\ src[2] = "a"
    /\ res[1] = "stored" /\ Succeeded(2)
    /\ wrote[2]

\* C2: once a file exists at a blob's final path, no step of any IngestFile
\* call replaces, truncates or rewrites the file at that path.
C2_PathNeverRewritten ==
    [][\A p \in Paths : final[p] # NoFile => final'[p] = final[p]]_vars

\* C3: a call that finds the final path taken when it renames (it lost the
\* race) returns as a dedupe hit under the length check: existed=true or a
\* corruption error, never anything else.
C3_RaceLoserIsDedupeHit ==
    \A c \in Calls :
        (Returned(c) /\ raced[c]) => res[c] \in {"existed", "corruption"}

\* C7: a call that observed cancellation in its copy loop returned the
\* cancellation error, did not write the final path, and its temp file is
\* gone from incoming.
C7_CancelLeavesNothing ==
    \A c \in Calls :
        res[c] = "cancelled" =>
            /\ Returned(c)
            /\ c \notin tmpfiles
            /\ ~wrote[c]
            /\ \A p \in Paths : final[p] # NoFile => final[p].ino # c

\* a call cancelled after it had already written a chunk to its temp file
C7_Witness == \E c \in Calls : res[c] = "cancelled" /\ n[c] > 0

\* C8: a call that finished streaming while a file was at its final path
\* does not write that path; it fails with corruption when the file's
\* length differs from the streamed length, and reports existed=true when
\* the lengths agree.
C8_ExistingFileLengthCheck ==
    \A c \in Calls :
        (Returned(c) /\ atEOF[c] # NoFile) =>
            /\ ~wrote[c]
            /\ res[c] = IF atEOF[c].len # n[c] THEN "corruption" ELSE "existed"
            /\ atEOF[c].ino = 0 => final[finalPath(c)] = atEOF[c]

\* a call met a pre-existing file of another length and failed
C8_Witness ==
    \E c \in Calls :
        /\ Returned(c)
        /\ atEOF[c] # NoFile /\ atEOF[c].len # n[c]
        /\ res[c] = "corruption"

\* C9: after a crash, the blob of every call that had returned success is
\* complete at its final path.
C9_DurableAfterReturn ==
    crashed =>
        \A c \in Calls :
            Succeeded(c) => HoldsBytesOf(final[finalPath(c)], src[c])

(***************************************************************************)
(* Properties of the metadata store.                                       *)
(***************************************************************************)
ActiveProfiles(rows, gi) == {r \in rows : r.gi = gi /\ r.active}

\* C4: in every committed state of the catalog, whatever the interleaving of
\* games refresh, profiles create, rename, set-active and delete, at most
\* one profile of a game install has is_active = TRUE.
C4_AtMostOneActive ==
    \A gi \in 1..MaxId : Cardinality(ActiveProfiles(db.profiles, gi)) <= 1

\* a set-active has been committed: the install has two profiles and the
\* active one is not the default profile games refresh created
C4_Witness ==
    \E r1, r2 \in db.profiles :
        /\ r1.gi = r2.gi
        /\ r1.name = "default" /\ ~r1.active
        /\ r2.name = "alt" /\ r2.active

\* C5: games refresh, profiles set-active and mods import each run in one
\* transaction: the committed catalog changes only in the step that commits
\* the whole transaction of a process that has executed its last statement,
\* so a command that fails or is interrupted at any earlier step leaves
\* none of its row changes behind.
C5_MultiRowAtomic ==
    [][db' # db =>
          \E p \in Procs : /\ proc[p].pc = "commit"
                           /\ tx[p] # NoSnap
                           /\ db' = tx[p]
                           /\ proc'[p] = IdleProc]_vars

\* a set-active has deactivated the profiles of the install inside its
\* transaction, and the committed catalog still shows the active profile
C5_Witness ==
    \E p \in Procs :
        /\ proc[p].cmd = "setActive"
        /\ proc[p].pc = "activate"
        /\ tx[p] # NoSnap
        /\ ActiveProfiles(tx[p].profiles, proc[p].gi) = {}
        /\ ActiveProfiles(db.profiles, proc[p].gi) # {}

\* C6: no sequence or interleaving of profiles add commands, with or
\* without --priority, commits two items of one profile with the same
\* priority.
C6_NoDuplicatePriority ==
    \A r1, r2 \in db.items :
        (r1.profile = r2.profile /\ r1.prio = r2.prio) => r1 = r2

KindsStored(sha) == {k \in Kinds : final[PathFor(k, sha)] # NoFile}
KindsRecorded(sha) ==
    {r.kind : r \in {x \in db.blobs : x.sha = sha}}
        \cup {e[2] : e \in {x \in recorded : x[1] = sha /\ x[3] = "ok"}}

\* C10 as stated: a SHA-256 that has been stored or recorded under one kind
\* is never stored or recorded under another kind.
C10_OneKindPerSha ==
    \A sha \in Hashes : Cardinality(KindsStored(sha) \cup KindsRecorded(sha)) <= 1

\* C10, amended: a SHA-256 that has been recorded in the blobs table under
\* one kind is never recorded or re-tagged under another kind, whatever
\* kinds its bytes have been stored under in the blob store.
C10_OneRecordedKindPerSha ==
    \A sha \in Hashes : Cardinality(KindsRecorded(sha)) <= 1

\* a blob recorded under one kind was offered under another kind, and
\* EnsureBlobRecorded refused it
C10_Witness ==
    \E e \in recorded :
        /\ e[3] = "rejected"
        /\ \E r \in db.blobs : r.sha = e[1] /\ r.kind # e[2]

UserOverrides(rows) == {r \in rows : r.origin = "user_override"}

\* C11: no step of a games refresh changes a target whose origin is
\* user_override: neither inside the refresh's transaction nor in the
\* catalog it commits are its root_path, origin or metadata different.
C11_UserOverrideKept ==
    [][/\ UserOverrides(db.targets) \subseteq db'.targets
       /\ \A p \in Procs :
             (tx[p] # NoSnap /\ tx'[p] # NoSnap) =>
                 UserOverrides(tx[p].targets) \subseteq tx'[p].targets]_vars

\* a refresh that discovered the install under another root has upserted
\* it, and the user's target is still in its transaction
C11_Witness ==
    \E p \in Procs :
        /\ proc[p].cmd = "refresh" /\ proc[p].pc = "commit"
        /\ \E i \in tx[p].installs : i.present
        /\ \E r \in UserOverrides(tx[p].targets) :
               \E i \in 1..Len(proc[p].scan) : r.root # proc[p].scan[i].root

\* the step in which IngestFile returns to process p's import
IngestBy(p) == proc[p].pc # "ensureBlob" /\ proc'[p].pc = "ensureBlob"
\* the step in which the transaction of process p's import opens
ImportTxOpens(p) == proc[p].cmd = "import" /\ tx[p] = NoSnap /\ tx'[p] # NoSnap
ArchivePath(sha) == PathFor(KindArchive, sha)

\* C12 as stated: an import ingests its archive inside the span of its
\* open metadata transaction.
C12_IngestInsideTx ==
    [][\A p \in Procs : IngestBy(p) => tx'[p] # NoSnap]_vars

\* C12, amended: an import ingests its archive first, with no transaction
\* open, and opens its metadata transaction only after the ingest has
\* returned with the archive at its final path.
C12_IngestBeforeTx ==
    [][\A p \in Procs :
          /\ IngestBy(p) => (tx[p] = NoSnap /\ tx'[p] = NoSnap)
          /\ ImportTxOpens(p) =>
                (proc[p].pc = "ensureBlob"
                   /\ final[ArchivePath(proc[p].sha)] # NoFile)]_vars

\* an import has ingested its archive and has not opened its transaction
C12_Witness ==
    \E p \in Procs :
        /\ proc[p].cmd = "import" /\ proc[p].pc = "ensureBlob"
        /\ tx[p] = NoSnap
        /\ final[ArchivePath(proc[p].sha)] # NoFile

\* the import of p is about to attach its archive to a ModFile that already
\* has a version with that archive
DupVersion(p) ==
    /\ proc[p].cmd = "import"
    /\ proc[p].pc = "version"
    /\ \E r \in tx[p].versions : r.file = proc[p].file /\ r.sha = proc[p].sha

\* C13: an import whose archive is already attached to the same ModFile
\* fails at the insert of the version: the command ends without a commit, its
\* transaction is dropped, and no row of blobs, mod_pages, mod_files or
\* mod_file_versions is new or changed.
C13_DuplicateVersionRefused ==
    [][\A p \in Procs :
          (DupVersion(p) /\ proc'[p] # proc[p]) =>
              /\ proc'[p].pc = "idle"
              /\ tx'[p] = NoSnap
              /\ db' = db]_vars

C13_Witness ==
    \E p \in Procs : DupVersion(p) /\ proc[p].nexus # NoNexus /\ proc[p].pageArg = 0

\* the import of p creates a ModFile in this step
CreatesFile(p) ==
    /\ proc[p].cmd = "import"
    /\ proc[p].pc = "file"
    /\ proc'[p].pc = "version"
    /\ tx'[p].files # tx[p].files

\* C16: a ModFile created by an import is primary exactly when no ModFile
\* existed on its ModPage at the moment it was created.
C16_PrimaryIffFirstOnPage ==
    [][\A p \in Procs :
          CreatesFile(p) =>
              \A r \in tx'[p].files \ tx[p].files :
                  r.primary <=> ~(\E o \in tx[p].files : o.page = r.page)]_vars

\* an import has just added a second, non-primary ModFile to a page
C16_Witness ==
    \E p \in Procs :
        /\ proc[p].cmd = "import"
        /\ proc[p].pc = "version"
        /\ \E r \in tx[p].files \ db.files :
              ~r.primary /\ \E o \in db.files : o.page = r.page /\ o.primary

\* no two rows of mod_pages have the same install and the same non-null
\* nexus game domain and mod id
NexusUnique(rows) ==
    \A r1, r2 \in rows :
        (r1.gi = r2.gi /\ r1.nexus # NoNexus /\ r1.nexus = r2.nexus) => r1 = r2

\* C19: in the committed catalog and in every open transaction, no two
\* ModPages of the same install share a nexus game domain and mod id that are
\* both non-null.
C19_NexusPageUnique ==
    /\ NexusUnique(db.pages)
    /\ \A p \in Procs : tx[p] # NoSnap => NexusUnique(tx[p].pages)

\* the same nexus mod has a page in two installs, and a second import of it
\* into one of them was attached to the page that was there
C19_Witness ==
    /\ \E r1, r2 \in db.pages :
          r1.nexus # NoNexus /\ r1.nexus = r2.nexus /\ r1.gi # r2.gi
    /\ \E f1, f2 \in db.files :
          /\ f1 # f2 /\ f1.page = f2.page
          /\ \E r \in db.pages : r.id = f1.page /\ r.nexus # NoNexus

\* the blob with this sha256 is recorded with this kind
HasKind(blobs, sha, k) == \E b \in blobs : b.sha = sha /\ b.kind = k

\* the rows of the table after the step that were not in it before it
Written(tbl) == db'[tbl] \ db[tbl]

\* C17: whenever a row of mod_file_versions, backups or overrides is
\* inserted, or its blob reference is updated, the blob it references is
\* recorded at that moment, with kind archive, backup, override respectively.
C17_BlobKindAtReference ==
    [][/\ \A r \in Written("versions") : HasKind(db.blobs, r.sha, KindArchive)
       /\ \A r \in Written("backups") : HasKind(db.blobs, r.sha, KindBackup)
       /\ \A r \in Written("overrides") : HasKind(db.blobs, r.sha, KindOverride)]_vars

\* each of the three tables holds a row, while blobs of the other kinds are
\* recorded that a write could have named
C17_Witness ==
    /\ db.versions # {} /\ db.backups # {} /\ db.overrides # {}
    /\ \A k \in Kinds : \E b \in db.blobs : b.kind = k

\* the target of the row belongs to the install of the row
TargetOfInstall(d, r) == \E t \in d.targets : t.id = r.target /\ t.gi = r.gi

\* C18: in every state of the catalog, each row of installed_files, backups
\* and operation_changes names a target that belongs to the row's install.
C18_TargetBelongsToInstall ==
    \A r \in db.ifiles \cup db.backups \cup db.changes : TargetOfInstall(db, r)

\* the three tables hold rows of both installs
C18_Witness ==
    /\ \E r \in db.ifiles : r.gi = 2
    /\ \E r \in db.backups : r.gi = 1
    /\ \E r \in db.changes : r.gi = 2

\* the file the path names lies in the archive store: element by element,
\* the absolute path of the store is a prefix of the absolute path of the file
Inside(path) ==
    LET d == Abs(ArchivesDir)
        a == Abs(path)
    IN Len(a) >= Len(d) /\ SubSeq(a, 1, Len(d)) = d

RmRefusals == {"rm-symlink", "rm-not-regular", "rm-inside-store"}

\* C14: an import with --rm of a source inside the archive store never gets
\* past the safety checks: it is refused before anything is ingested or
\* recorded, no such source is ever deleted, and the refusal "inside the
\* archive store" is given exactly for paths that lie inside it, whatever
\* prefix their strings share with the store's.
C14_UnsafeRemoveRefused ==
    [][/\ \A p \in Procs :
             (proc'[p].cmd = "import" /\ proc'[p].rm) => ~Inside(proc'[p].path)
       /\ \A path \in removed' : ~Inside(path)
       /\ (refusal' # refusal /\ refusal'.err \in RmRefusals) =>
             UNCHANGED <<final, durable, db, tx, proc, recorded, removed>>
       /\ (refusal'.err = "rm-inside-store") => Inside(refusal'.path)]_vars

\* an import --rm of a source given relative to the working directory was
\* refused, after another import --rm had deleted its source
C14_Witness ==
    /\ refusal.err = "rm-inside-store"
    /\ ~IsAbs(refusal.path)
    /\ removed # {}

Listed == {"input", "wrap"}

\* C15: an import has a transaction open, and commits, only after bsdtar has
\* listed the input or its tar.gz wrap; when the wrap cannot be listed the
\* import ends with bad-archive and the catalog, the transactions and the
\* archive store are as they were.
C15_ListedBeforeMetadata ==
    [][/\ \A p \in Procs :
             (proc'[p].cmd = "import" /\ tx'[p] # NoSnap) => proc'[p].listed \in Listed
       /\ (db' # db) =>
             \E p \in Procs : /\ proc[p].cmd = "import" /\ proc[p].pc = "commit"
                              /\ proc[p].listed \in Listed
       /\ (refusal' # refusal /\ refusal'.err = "bad-archive") =>
             UNCHANGED <<db, tx, final>>]_vars

\* the import of a wrapped input has written rows in its transaction, after
\* another import ended with bad-archive
C15_Witness ==
    /\ refusal.err = "bad-archive"
    /\ \E p \in Procs :
          /\ proc[p].cmd = "import" /\ proc[p].listed = "wrap"
          /\ tx[p] # NoSnap /\ tx[p].versions # db.versions

\* the file holds the whole record of one SaveActive call
Complete(f) == \E v \in ActiveIds : f = Marshal(v)

\* C20: at every moment active.json either does not exist yet or holds one
\* complete record, never an empty or partly written one, also while
\* SaveActive calls of several processes overlap and after a process was
\* killed in the middle of a write.
C20_SidecarComplete == sidecar = NoRecord \/ Complete(sidecar)

(***************************************************************************)
(* Properties of the loops that copy bytes.                                *)
(***************************************************************************)
\* C22: every loop that copies file bytes (blob ingest, the doctor's
\* re-hash, the tar.gz wrapping of an import input) handles at most 1 MiB
\* per iteration and polls the cancellation signal between chunks, so that
\* at most one further chunk is read after cancellation was signalled.
C22_CopyLoopsPollCancel ==
    \A c \in Calls : loop[c].chunk <= BufSize /\ loop[c].after <= 1

(***************************************************************************)
(* Properties of games refresh.                                            *)
(***************************************************************************)
\* the step in which the refresh of process p commits
RefreshCommits(p) ==
    /\ proc[p].cmd = "refresh" /\ proc[p].pc = "commit"
    /\ proc'[p].pc = "idle" /\ db' = tx[p] /\ lastLibs' = proc[p].libs
\* the keys of the installs the scan of process p found
ScanKeys(p) == {proc[p].scan[i].key : i \in 1..Len(proc[p].scan)}
\* install r is present before the step and not present after it
MarkedMissing(r) ==
    r.present /\ \E r2 \in db'.installs : r2.id = r.id /\ ~r2.present

\* C23: when a games refresh commits, an install of the store is present
\* if and only if the refresh's scan found it; an install is marked not
\* present only by the commit of a refresh whose discovery ran and did not
\* find it, so a refresh whose discovery did not run marks nothing.
C23_PresenceFollowsScan ==
    [][/\ \A p \in Procs :
             RefreshCommits(p) =>
                 \A r \in db'.installs : r.present <=> (r.key \in ScanKeys(p))
       /\ \A r \in db.installs :
             MarkedMissing(r) =>
                 \E p \in Procs : /\ RefreshCommits(p)
                                  /\ proc[p].didScan
                                  /\ r.key \notin ScanKeys(p)]_vars

\* a refresh has committed that found one install and marked another, which
\* it did not find, not present
C23_Witness ==
    /\ lastLibs \notin {NoScan, {}}
    /\ \E r \in db.installs : r.present
    /\ \E r \in db.installs : ~r.present

\* C24: a games refresh that commits right after a refresh of the same
\* libraries, on an unchanged filesystem, leaves the catalog as it was: the
\* same installs, targets and profiles with the same presence flags, roots
\* and active flags.
C24_RefreshIdempotent ==
    [][\A p \in Procs :
          (RefreshCommits(p) /\ proc[p].libs = lastLibs) => db' = db]_vars

\* a second refresh of the same libraries has run its statements on a
\* catalog that holds installs, a user's target and an active profile, and
\* is about to commit
C24_Witness ==
    \E p \in Procs :
        /\ proc[p].cmd = "refresh" /\ proc[p].pc = "commit"
        /\ proc[p].libs = lastLibs
        /\ proc[p].scan # <<>>
        /\ \E r \in tx[p].targets : r.origin = "user_override"
        /\ \E r \in tx[p].installs : ~r.present

\* the row of the install of appid in library lib, when libs were scanned
RowOf(rows, libs, lib, appid) ==
    InstallId(rows, Key(appid, assignSteamInstanceIDs(libs)[lib]))
Apps(lib) == {Manifests(lib)[i] : i \in 1..Len(Manifests(lib))}

\* C29: an install in a library that two consecutive refreshes both scanned
\* has the same game-install row, and so the same profiles, after the second
\* as after the first, whatever other libraries were added or removed.
C29_InstanceIdsStable ==
    [][\A p \in Procs :
          (RefreshCommits(p) /\ lastLibs # NoScan) =>
              \A lib \in lastLibs \cap proc[p].libs : \A appid \in Apps(lib) :
                  RowOf(db.installs, lastLibs, lib, appid)
                      = RowOf(db'.installs, proc[p].libs, lib, appid)]_vars

\* C25: every row accepted into the blobs table has a key of exactly 64
\* characters, each of them a lower-case hexadecimal digit.
C25_BlobKeysLowerHex ==
    \A r \in db.blobs :
        Len(r.sha) = ShaLen /\ \A i \in 1..Len(r.sha) : r.sha[i] \in HexDigits

\* the step in which p's set-active commits a change and reports
\* "Active profile set to NAME"
SetActiveCommits(p) ==
    /\ proc[p].pc = "commit" /\ proc[p].cmd = "setActive"
    /\ tx[p] # NoSnap
    /\ db' = tx[p] /\ db' # db
    /\ proc'[p].pc = "idle"

\* C27: when profiles set-active NAME commits and reports success, the
\* profile named NAME is the one and only active profile of the resolved
\* game install in the committed catalog, whatever other processes renamed,
\* deleted or activated between the command's lookup and its transaction.
C27_SetActiveNamesTheActive ==
    [][\A p \in Procs :
          SetActiveCommits(p) =>
              {r.name : r \in ActiveProfiles(db'.profiles, proc[p].gi)}
                  = {proc[p].name}]_vars

\* the step in which the import of p commits (an import always adds a
\* version row)
ImportCommits(p) ==
    /\ proc[p].pc = "commit" /\ proc[p].cmd = "import"
    /\ tx[p] # NoSnap
    /\ db' = tx[p] /\ db' # db
    /\ proc'[p].pc = "idle"

\* the SHA-256 of the content of the file f
ContentSum(f) == sha256(f.data, f.len)

\* the blobs row of kind archive of the version p's import created, and the
\* file at its path with the length the row records
BlobRowAndFile(p, rows, f) ==
    /\ \E v \in rows.versions : v.id = proc[p].ver /\ v.sha = proc[p].sha
    /\ \E r \in rows.blobs :
          /\ r.sha = proc[p].sha /\ r.kind = KindArchive
          /\ f # NoFile /\ f.len = r.size

\* C28 as stated: after a successful import the version's archive has a
\* blobs row of kind archive, a file at PathFor(archive, sha) of the
\* recorded length, and the SHA-256 of the file's content is sha, also when
\* the ingest was a dedupe hit on a file that was there before.
C28_ImportedBlobHashesToSha ==
    [][\A p \in Procs :
          ImportCommits(p) =>
              LET f == final'[PathFor(KindArchive, proc[p].sha)] IN
              /\ BlobRowAndFile(p, db', f)
              /\ ContentSum(f) = proc[p].sha]_vars

\* C28 amended: after a successful import the version's archive has a blobs
\* row of kind archive and a file at PathFor(archive, sha) of the recorded
\* length; the SHA-256 of the file's content is sha when the file was put
\* there by an ingest (a dedupe hit checks the length of the file only).
C28_ImportedBlobOnDisk ==
    [][\A p \in Procs :
          ImportCommits(p) =>
              LET f == final'[PathFor(KindArchive, proc[p].sha)] IN
              /\ BlobRowAndFile(p, db', f)
              /\ (f.ino # 0 => ContentSum(f) = proc[p].sha)]_vars

\* two imports of the same archive were committed, the second one a dedupe
\* hit on the file the first one stored
C28_Witness ==
    \E v1, v2 \in db.versions :
        /\ v1.id # v2.id /\ v1.sha = v2.sha
        /\ final[PathFor(KindArchive, v1.sha)].ino # 0
        /\ \E r \in db.blobs : r.sha = v1.sha /\ r.kind = KindArchive

\* the characters of s from the first to the last that is not a space
Trimmed(s) ==
    LET keep == {i \in 1..Len(s) : s[i] # " "} IN
    IF keep = {} THEN <<>>
    ELSE SubSeq(s, CHOOSE i \in keep : \A j \in keep : i <= j,
                   CHOOSE i \in keep : \A j \in keep : j <= i)

LowerCased(s) == [i \in 1..Len(s) |-> IF s[i] = "A" THEN "a" ELSE s[i]]

\* the readings of arg as store:game or store:game#instance in which the
\* store is what precedes the first ':' and what follows it holds at most
\* one '#'; a '#' before the first ':' is a character of the store
Readings(arg) ==
    LET colons == {i \in 1..Len(arg) : arg[i] = ":"}
        first == {i \in colons : \A j \in colons : i <= j}
    IN UNION {
         LET store == Trimmed(SubSeq(arg, 1, c - 1))
             rest == SubSeq(arg, c + 1, Len(arg))
             hashes == {i \in 1..Len(rest) : rest[i] = "#"}
         IN IF store = <<>> \/ Cardinality(hashes) > 1 THEN {}
            ELSE IF hashes = {}
            THEN {SelectorIds(LowerCased(store), Trimmed(rest), DefaultInstance)}
            ELSE {SelectorIds(LowerCased(store), Trimmed(SubSeq(rest, 1, h - 1)),
                              Trimmed(SubSeq(rest, h + 1, Len(rest)))) : h \in hashes}
         : c \in first}

WellFormed(arg) == {r \in Readings(arg) : r.game # <<>> /\ r.instance # <<>>}

\* the number of '#' in s
HashCount(s) == Cardinality({i \in 1..Len(s) : s[i] = "#"})

\* the well-formed readings of an input that holds at most one '#', and
\* whose '#', when there is one, separates the game id from the instance
WellFormedOneHash(arg) ==
    {r \in WellFormed(arg) :
        /\ HashCount(arg) <= 1
        /\ HashCount(arg) = 1 => r.instance # DefaultInstance}

\* C26 as stated: ParseSelector accepts exactly the inputs of the form
\* store:game or store:game#instance that have a non-empty store, a
\* non-empty game id, at most one '#' in the whole input and a non-empty
\* instance when a '#' is present; it returns the lower-cased trimmed store,
\* the trimmed game id and the trimmed instance ("default" when none was
\* given), and an error for every other input.
C26_ParseSelectorOneHash ==
    selector.out.err \in {"nil", "invalid"} =>
        IF WellFormedOneHash(selector.in) = {}
        THEN selector.out = SelectorError
        ELSE selector.out \in WellFormedOneHash(selector.in)

\* C26, amended: ParseSelector accepts exactly the inputs of the form
\* store:game or store:game#instance with a non-empty store, a non-empty game
\* id, at most one '#' after the first ':' and a non-empty instance when
\* that '#' is there; a '#' before the first ':' belongs to the store.  It
\* returns the lower-cased trimmed store, the trimmed game id and the
\* trimmed instance ("default" when none was given), and an error for
\* every other input.
C26_ParseSelectorGrammar ==
    selector.out.err \in {"nil", "invalid"} =>
        IF WellFormed(selector.in) = {}
        THEN selector.out = SelectorError
        ELSE selector.out \in WellFormed(selector.in)

\* a selector with two '#', one of them in an upper-case store, was parsed
\* into a lower-cased store, a game id and an instance
C26_Witness ==
    /\ selector.out.err = "nil"
    /\ selector.out.instance # DefaultInstance
    /\ HashCount(selector.in) = 2
    /\ HashCount(selector.out.store) = 1
    /\ selector.out.store # Trimmed(SubSeq(selector.in, 1, Len(selector.out.store)))

\* the step in which the profiles remove of p commits the deletion
RemoveCommits(p) ==
    /\ proc[p].pc = "commit" /\ proc[p].cmd = "remove"
    /\ tx[p] # NoSnap
    /\ db' = tx[p] /\ db' # db
    /\ proc'[p].pc = "idle"

\* the step in which the profiles rename of p renames a row
RenameRuns(p) ==
    /\ proc[p].pc = "rename" /\ proc'[p].pc = "idle"
    /\ db'.profiles # db.profiles

\* C30: a profiles subcommand resolves install and profile from its own
\* flags: profiles remove --game G --profile P VERSION removes VERSION from
\* the profile P of install G and from no other, and profiles rename
\* --game G OLD NEW renames the profile OLD of install G, whatever the
\* active selection is.
C30_OwnFlagsResolve ==
    [][\A p \in Procs :
          /\ (RemoveCommits(p) /\ proc[p].flagGame # 0) =>
                db.items \ db'.items =
                   {r \in db.items :
                       /\ r.ver = proc[p].ver
                       /\ \E pr \in GetProfileByName(db.profiles, proc[p].flagGame,
                                                     proc[p].flagProfile) :
                             r.profile = pr.id}
          /\ (RenameRuns(p) /\ proc[p].flagGame # 0) =>
                db.profiles \ db'.profiles =
                   GetProfileByName(db.profiles, proc[p].flagGame, proc[p].name)]_vars

====
